---- MODULE Spec2Model ----
(***************************************************************************)
(* Agent-turn orchestration of SRED_v6 (src/sred/orchestration).           *)
(*                                                                         *)
(* One thread (run id, session id) runs turns one after the other.  A turn *)
(* is one graph.invoke of AgentService.send_message: the graph state of    *)
(* the thread is restored from its checkpoint, the per-turn inputs are     *)
(* merged into it and the nodes of build_graph run until END.  Every key   *)
(* a node returns is merged into the graph state.                          *)
(*                                                                         *)
(* Texts are tuples of string fragments, so that an f-string such as       *)
(* f"Tool {tool_name} failed" is <<"Tool ", tool_name, " failed">> and the *)
(* empty string is << >>.  An optional value (a key that may be absent, a  *)
(* field that may be None) is a tuple of length 0 or 1.                    *)
(***************************************************************************)
EXTENDS Integers, Sequences, FiniteSets, TLC

\* ------------------------------------------------------------------------
\* Bounds of the model
\* ------------------------------------------------------------------------

\* largest step ceiling (max_steps) a thread is created with
MaxStepCeiling == 2

\* number of turns the thread runs
MaxTurns == 2

\* ids available for each kind of blocking item (tasks, contradictions, locks)
MaxItems == 1

\* most tool requests in one planner decision
MaxRequests == 2

\* most messages the turns of one (run id, session id) pair produce in the
\* thread model
MaxThreadMessages == 2

\* longest list of a lane given to the compiler model
MaxLaneLen == 2

\* compilations of one packet in the compiler model
MaxCompiles == 2

\* calls of clear_checkpoints in the checkpoint store model
MaxClears == 1

\* ------------------------------------------------------------------------
\* Small helpers
\* ------------------------------------------------------------------------

None == << >>

Some(x) == << x >>

Last(s) == s[Len(s)]

\* s is a prefix of t
IsPrefix(s, t) == Len(s) <= Len(t) /\ SubSeq(t, 1, Len(s)) = s

\* the last n elements of s (all of s when it is shorter)
Tail_n(s, n) == IF Len(s) <= n THEN s ELSE SubSeq(s, Len(s) - n + 1, Len(s))

RECURSIVE SortedSeq(_)
\* the elements of a finite set of integers in ascending order (ORDER BY id)
SortedSeq(S) ==
    IF S = {} THEN << >>
    ELSE LET m == CHOOSE x \in S : \A y \in S : x <= y
         IN  << m >> \o SortedSeq(S \ {m})

RECURSIVE Reverse(_)
Reverse(s) == IF s = << >> THEN << >> ELSE Reverse(Tail(s)) \o << Head(s) >>

\* ------------------------------------------------------------------------
\* Inputs
\* ------------------------------------------------------------------------

\* the tool registry (TOOL_REGISTRY keys) and a name that is not in it
TOOL_REGISTRY == {"people_list"}

ToolNames == TOOL_REGISTRY \cup {"nonexistent_tool"}

\* ToolRequest (arguments are left out): the first request of a decision has
\* no idempotency key, the i-th has the key "key-i", so that the requests of
\* one decision can be told apart
ToolRequest(i, name) ==
    [ tool_name |-> name,
      idempotency_key |-> IF i = 1 THEN None ELSE Some("key-" \o ToString(i)) ]

\* the lists of at most MaxRequests tool requests
RequestLists ==
    UNION { { [ i \in 1..n |-> ToolRequest(i, names[i]) ] :
                names \in [1..n -> ToolNames] } : n \in 0..MaxRequests }

\* stop_reason texts an LLM may put in its answer ("" stands for null or "")
LLMStopReasons ==
    {"", "complete", "ask_user", "blocked", "error", "other"}

\* the raw answers of the LLM in the n-th turn: text that is not a
\* PlannerDecision at all, or the JSON of the fields done, stop_reason,
\* draft_response, tool_requests
Garbage == [json |-> FALSE]

RawOutputs(n) ==
    {Garbage}
    \* done=true with stop_reason and draft_response (some of them missing)
    \cup { [json |-> TRUE, done |-> TRUE, stop_reason |-> sr,
            draft_response |-> <<"Draft of turn ", ToString(n)>>,
            tool_requests |-> << >>] : sr \in LLMStopReasons }
    \cup { [json |-> TRUE, done |-> TRUE, stop_reason |-> "complete",
            draft_response |-> << >>, tool_requests |-> << >>] }
    \* done=true with a tool request
    \cup { [json |-> TRUE, done |-> TRUE, stop_reason |-> "complete",
            draft_response |-> <<"Draft of turn ", ToString(n)>>,
            tool_requests |-> << ToolRequest(1, "people_list") >>] }
    \* done=false with zero or more tool requests
    \cup { [json |-> TRUE, done |-> FALSE, stop_reason |-> "",
            draft_response |-> << >>, tool_requests |-> trs] :
              trs \in RequestLists }

\* the user's instruction
Instructions == { <<"list people">> }

\* instructions without a word: the empty text and a text of spaces
BlankInstructions == { << >>, <<" ">> }

\* what happens inside the try block of tool_executor: the handler returns a
\* payload, it returns an explicit error payload, a KeyError is raised (by
\* get_tool_handler for a name it cannot resolve, or by the handler), or the
\* handler raises another exception
HandlerOutcomes == {"return", "return_error", "raise_KeyError", "raise"}

\* ------------------------------------------------------------------------
\* Durable business state of the run
\* ------------------------------------------------------------------------

ItemIds == 1..MaxItems

\* the open blocking review tasks, the open blocking contradictions and the
\* active decision locks of the run
DbStates ==
    [ tasks : SUBSET ItemIds, contradictions : SUBSET ItemIds,
      locks : SUBSET ItemIds ]

\* the business states a thread starts from: no blocking item, or one open
\* blocking review task
InitialDbStates ==
    { d \in DbStates :
        /\ d.tasks \subseteq {1}
        /\ d.contradictions = {}
        /\ d.locks = {} }

\* what one handler call can have done in the session when it returns or
\* raises: nothing, a review task resolved, a contradiction opened, or a lock
\* created
HandlerEffects(d) ==
    {d}
    \cup { [d EXCEPT !.tasks = (d.tasks \ {i})] : i \in ItemIds }
    \cup { [d EXCEPT !.contradictions = (d.contradictions \cup {i})] : i \in ItemIds }
    \cup { [d EXCEPT !.locks = (d.locks \cup {i})] : i \in ItemIds }

\* ------------------------------------------------------------------------
\* Fixed business data of the run that no tool of the model changes
\* ------------------------------------------------------------------------

\* people of the run (PersonAnchor rows; chars is the length of the JSON)
RunPeople ==
    { [person_id |-> 1, name |-> "Alice", chars |-> 96] }

\* memory documents of the run
RunMemoryDocs ==
    { [memory_id |-> 1, path |-> "memory/summary.md", chars |-> 120] }

\* the run the turns of the graph model are on (send_message's run_id)
TurnRunId == 1

\* the segment table of the database, which holds the segments of every run;
\* chars is the length of the content, matches whether the content matches
\* the instruction in the full-text index
Segments ==
    { [segment_id |-> 1, run_id |-> 1, chars |-> 260, matches |-> TRUE],
      [segment_id |-> 2, run_id |-> 2, chars |-> 180, matches |-> TRUE],
      [segment_id |-> 3, run_id |-> 1, chars |-> 90, matches |-> FALSE] }

\* LIMIT :limit of the full-text query
fts_limit == 10

\* the rows of SELECT id, snippet(...) FROM segment_fts WHERE segment_fts
\* MATCH :query ORDER BY rank LIMIT :limit, as segment ids: the index holds
\* every segment and the query has no condition on the run
segment_fts_match ==
    LET ids == SortedSeq({ s.segment_id : s \in { x \in Segments : x.matches } })
    IN  SubSeq(ids, 1, IF Len(ids) < fts_limit THEN Len(ids) ELSE fts_limit)

\* the ranked hits of the full-text search for a non-blank instruction, each
\* mapped back to its segment by session.get(Segment, seg_id)
FtsHits ==
    LET ids == segment_fts_match
    IN  [ i \in 1..Len(ids) |->
            LET seg == CHOOSE x \in Segments : x.segment_id = ids[i]
            IN  [segment_id |-> seg.segment_id, score |-> None, chars |-> seg.chars] ]

\* ------------------------------------------------------------------------
\* State
\* ------------------------------------------------------------------------

VARIABLES
    state,       \* the GraphState of the thread (its checkpoint between turns)
    db,          \* durable business state of the run (blocking items)
    tool_logs,   \* the ToolCallLog rows of the run, oldest first
    pc,          \* the node about to run; "idle" between turns, "END" at END
    turn,        \* number of turns started on the thread
    path,        \* nodes run in this turn since its start or its last tool execution
    llm_calls,   \* calls of llm_client.chat_completions_create in this turn
    tool_runs,   \* tool_executor invocations in this turn
    at_start,    \* db, Len(tool_logs), messages and step_count when the turn started
    gate_seen,   \* the snapshots built by gate_evaluator in this turn, in order
    last_raw,    \* the answer to the planner's latest LLM call in this turn, if any
    last_outcome, \* what happened in the latest tool execution of this turn, if any
    response,    \* the AgentMessageResponse of the last finished turn
    llm_request, \* the messages of the planner's latest LLM call in this turn, if any
    checkpoints, \* the checkpointed transcript of each thread id (thread model)
    slots,       \* the turns in progress of the thread model
    produced,    \* the messages each (run id, session id) pair has produced
    overlap,     \* two turns of one pair have been in progress together
    clock,       \* the latest reading of the wall clock
    fts_calls,   \* full-text searches sent to the database in this turn
    cc_packet,   \* the context packet of the compiler model
    cc_before,   \* that packet before the latest compilation
    cc_runs,     \* compilations made in the compiler model
    rows,        \* the checkpoint rows stored under each thread id
    cleared,     \* the arguments and the result of the latest clear_checkpoints
    clears       \* calls of clear_checkpoints made

\* the variables of the thread model
thread_vars == << checkpoints, slots, produced, overlap >>

\* the variables of the compiler model
compiler_vars == << cc_packet, cc_before, cc_runs >>

\* the variables of the checkpoint store that clear_checkpoints adds
clear_vars == << rows, cleared, clears >>

\* the variables of the graph model
graph_vars ==
    << state, db, tool_logs, pc, turn, path, llm_calls, tool_runs,
       at_start, gate_seen, last_raw, last_outcome, response, llm_request,
       clock, fts_calls >>

vars == << graph_vars, thread_vars, compiler_vars, clear_vars >>

Nodes ==
    { "load_world_snapshot", "build_anchor_lane", "memory_retrieve",
      "retrieve_evidence_pack", "context_compiler", "planner", "tool_executor",
      "gate_evaluator", "human_gate", "summarizer", "finalizer" }

\* TokenBudget defaults
budget_world_snapshot == 800

budget_people_time_anchor == 1200

budget_memory_summaries == 1000

budget_evidence_pack == 3000

budget_total == 6000

TokenBudget ==
    [ world_snapshot |-> budget_world_snapshot,
      people_time_anchor |-> budget_people_time_anchor,
      memory_summaries |-> budget_memory_summaries,
      evidence_pack |-> budget_evidence_pack,
      total |-> budget_total ]

\* ContextPacket(): no lane set, default budget, never compiled
ContextPacket ==
    [ world_snapshot |-> None, people_time_anchor |-> None,
      memory_summaries |-> None, evidence_pack |-> None,
      token_budget |-> TokenBudget, compiled_at |-> None ]

\* init_state(run_id, session_id, user_message, max_steps); the keys a node
\* adds later (exit_requested, gate_snapshot, needs_review_payload,
\* summary_text, finalized, final_payload) are absent: falsy or None
init_state(user_message, max_steps) ==
    [ run_id |-> TurnRunId,
      user_message |-> user_message,
      messages |-> << >>,
      context_packet |-> ContextPacket,
      tool_queue |-> << >>,
      last_tool_result |-> None,
      gate_snapshot |-> None,
      needs_review_payload |-> None,
      stop_reason |-> "",
      is_blocked |-> FALSE,
      errors |-> << >>,
      step_count |-> 0,
      max_steps |-> max_steps,
      exit_requested |-> FALSE,
      summary_text |-> None,
      finalized |-> FALSE,
      final_payload |-> None ]

TurnStart(d, logs, st) ==
    [ db |-> d, logs |-> Len(logs), messages |-> st.messages,
      step_count |-> st.step_count ]

\* ------------------------------------------------------------------------
\* Threads and their checkpoints (thread model)
\* ------------------------------------------------------------------------

\* run ids and session ids of the thread model
RunIds == {1, 11}

SessionIds == {"a", "1a"}

Pairs == RunIds \X SessionIds

\* the requests that may be served at the same time
Slots == {1, 2}

\* mutant: the run id and the session id are joined without a separator
make_thread_id_m1(run_id, session_id) == ToString(run_id) \o session_id

\* f"{run_id}:{session_id}"
make_thread_id(run_id, session_id) == ToString(run_id) \o ":" \o session_id

\* the checkpoint partition key of a pair
thread_id_of(p) == make_thread_id(p[1], p[2])

ThreadIds == { thread_id_of(p) : p \in Pairs }

\* a slot that serves no request
IdleSlot == [ busy |-> FALSE, pair |-> <<1, "a">>, transcript |-> << >> ]

ThreadInit ==
    /\ checkpoints = [ t \in ThreadIds |-> << >> ]
    /\ slots = [ k \in Slots |-> IdleSlot ]
    /\ produced = [ p \in Pairs |-> << >> ]
    /\ overlap = FALSE
    /\ rows = [ t \in ThreadIds |-> 0 ]
    /\ cleared = None
    /\ clears = 0

\* mutant: a request waits while a turn of its thread is in progress
thread_admits_m1(k, p) ==
    /\ ~ slots[k].busy
    /\ Len(produced[p]) < MaxThreadMessages
    /\ \A j \in Slots \ {k} : ~ (slots[j].busy /\ slots[j].pair = p)

\* whether the request of pair p may begin in slot k: send_message takes no
\* lock and opens its own checkpointer connection, so a turn of the same
\* thread in another slot does not hold it back
thread_admits(k, p) ==
    /\ ~ slots[k].busy
    /\ Len(produced[p]) < MaxThreadMessages

\* send_message of pair p begins in slot k: graph.invoke restores the state
\* checkpointed under the thread id of p
thread_invoke_at(k, p) ==
    /\ thread_admits(k, p)
    /\ slots' = [ slots EXCEPT ![k] =
                    [ busy |-> TRUE, pair |-> p,
                      transcript |-> checkpoints[thread_id_of(p)] ] ]
    /\ overlap' = (overlap \/ \E j \in Slots \ {k} :
                                 slots[j].busy /\ slots[j].pair = p)
    /\ UNCHANGED << checkpoints, produced, graph_vars, compiler_vars, clear_vars >>

thread_invoke_in(free, pairs) ==
    \E k \in free, p \in pairs : thread_invoke_at(k, p)

thread_invoke == thread_invoke_in(Slots, Pairs)

\* two threads of run 1 and one thread of run 11
ClearPairs == { <<1, "a">>, <<1, "1a">>, <<11, "a">> }

\* the same when the requests are served one at a time
thread_invoke_serial == thread_invoke_in({1}, ClearPairs)

\* a node of the turn in slot k appends a message; the state is checkpointed
\* under the thread id of the turn
thread_step ==
    \E k \in Slots :
      LET p == slots[k].pair
          msg == [ by |-> p, n |-> Len(produced[p]) + 1 ]
          transcript == Append(slots[k].transcript, msg)
      IN  /\ slots[k].busy
          /\ Len(produced[p]) < MaxThreadMessages
          /\ slots' = [ slots EXCEPT ![k].transcript = transcript ]
          /\ checkpoints' = [ checkpoints EXCEPT ![thread_id_of(p)] = transcript ]
          /\ produced' = [ produced EXCEPT ![p] = Append(@, msg) ]
          /\ rows' = [ rows EXCEPT ![thread_id_of(p)] = @ + 1 ]
          /\ UNCHANGED << overlap, graph_vars, compiler_vars, cleared, clears >>

\* the turn in slot k returns
thread_return ==
    \E k \in Slots :
      /\ slots[k].busy
      /\ slots' = [ slots EXCEPT ![k] = IdleSlot ]
      /\ UNCHANGED << checkpoints, produced, overlap, graph_vars, compiler_vars, clear_vars >>

\* thread_id LIKE pattern, for a pattern that is a text followed by %
like_prefix(thread_id, prefix) ==
    /\ Len(thread_id) >= Len(prefix)
    /\ SubSeq(thread_id, 1, Len(prefix)) = prefix

\* mutant: the pattern of a run is its id followed by %
run_pattern_prefix_m1(run_id) == ToString(run_id)

\* f"{run_id}:%" without its final %
run_pattern_prefix(run_id) == ToString(run_id) \o ":"

\* the thread ids whose rows the DELETE statement of clear_checkpoints matches
clear_targets(run_id, session_id) ==
    IF run_id # None /\ session_id # None
    THEN { t \in ThreadIds : t = make_thread_id(run_id[1], session_id[1]) }
    ELSE IF run_id # None
    THEN { t \in ThreadIds : like_prefix(t, run_pattern_prefix(run_id[1])) }
    ELSE ThreadIds

RECURSIVE SumRows(_, _)
\* total += cur.rowcount
SumRows(r, ts) ==
    IF ts = {} THEN 0
    ELSE LET t == CHOOSE u \in ts : TRUE
         IN  r[t] + SumRows(r, ts \ {t})

\* clear_checkpoints(run_id, session_id), each argument given or None
clear_checkpoints ==
    /\ clears < MaxClears
    /\ \E run_id \in {None} \cup { Some(r) : r \in RunIds },
          session_id \in {None} \cup { Some(x) : x \in SessionIds } :
          LET gone == clear_targets(run_id, session_id)
          IN  /\ checkpoints' = [ t \in ThreadIds |->
                                    IF t \in gone THEN << >> ELSE checkpoints[t] ]
              /\ rows' = [ t \in ThreadIds |-> IF t \in gone THEN 0 ELSE rows[t] ]
              /\ cleared' = Some([ run_id |-> run_id, session_id |-> session_id,
                                   deleted |-> SumRows(rows, gone) ])
    /\ clears' = clears + 1
    /\ UNCHANGED << slots, produced, overlap, graph_vars, compiler_vars >>

NoResponse ==
    [status |-> "", message |-> << >>, next_actions |-> << >>, citations |-> << >>]

GraphInit ==
    /\ \E n \in 0..MaxStepCeiling : state = init_state(<< >>, n)
    /\ db \in InitialDbStates
    /\ tool_logs = << >>
    /\ pc = "idle"
    /\ turn = 0
    /\ path = << >>
    /\ llm_calls = 0
    /\ tool_runs = 0
    /\ at_start = TurnStart(db, tool_logs, state)
    /\ gate_seen = << >>
    /\ last_raw = None
    /\ last_outcome = None
    /\ response = NoResponse
    /\ llm_request = None
    /\ clock = 0
    /\ fts_calls = 0

\* the compiler model at rest
CompilerIdle ==
    /\ cc_packet = ContextPacket
    /\ cc_before = ContextPacket
    /\ cc_runs = 0

Init ==
    /\ GraphInit
    /\ ThreadInit
    /\ CompilerIdle

\* mutant: every turn starts from a fresh state
resume_state_m1(st, msg) == init_state(msg, st.max_steps)

\* the state a turn starts from: the checkpointed state of the thread with
\* the per-turn input written over it
resume_state(st, msg) == [st EXCEPT !.user_message = msg]

\* graph.invoke({"run_id", "session_id", "user_message"}, config): the inputs
\* are written over the checkpointed state of the thread and the graph starts
\* at START -> load_world_snapshot
send_message_invoke_with(instructions) ==
    /\ pc = "idle"
    /\ turn < MaxTurns
    /\ \E msg \in instructions :
          state' = resume_state(state, msg)
    /\ pc' = "load_world_snapshot"
    /\ turn' = turn + 1
    /\ path' = << >>
    /\ llm_calls' = 0
    /\ tool_runs' = 0
    /\ at_start' = TurnStart(db, tool_logs, state)
    /\ gate_seen' = << >>
    /\ last_raw' = None
    /\ last_outcome' = None
    /\ llm_request' = None
    /\ fts_calls' = 0
    /\ UNCHANGED << db, tool_logs, response, clock, thread_vars, compiler_vars, clear_vars >>

send_message_invoke == send_message_invoke_with(Instructions)

\* the same with an instruction that may be empty or white space only
send_message_invoke_any == send_message_invoke_with(Instructions \cup BlankInstructions)

\* the bookkeeping of a node that is neither the planner nor the tool executor
Visit(node, next) ==
    /\ pc = node
    /\ pc' = next
    /\ path' = Append(path, node)

\* ------------------------------------------------------------------------
\* Context lanes (nodes 1-4)
\* ------------------------------------------------------------------------

\* mutant: every node starts from a fresh packet
current_packet_m1(st) == ContextPacket

\* the current packet of the state, or a fresh one when the key is falsy
current_packet(st) == st.context_packet

\* ToolOutcome of a ToolCallLog row; chars is the length of its JSON
ToolOutcome(tl) ==
    [ name |-> tl.tool_name, success |-> tl.success, chars |-> 110 ]

\* LogRepository.list_tool_calls(run_id, limit): newest first
list_tool_calls(logs, limit) == Reverse(Tail_n(logs, limit))

\* the WorldSnapshot built from the database
WorldSnapshot(d, logs) ==
    [ run_status |-> "PROCESSING",
      open_contradictions |-> Cardinality(d.contradictions),
      open_tasks |-> Cardinality(d.tasks),
      active_locks |-> Cardinality(d.locks),
      last_tool_outcomes |->
          LET tls == list_tool_calls(logs, 5)
          IN  [ i \in 1..Len(tls) |-> ToolOutcome(tls[i]) ] ]

\* the people sorted by name (one person in this model)
PeopleTimeAnchor ==
    [ people |->
          LET ids == SortedSeq({ p.person_id : p \in RunPeople })
          IN  [ i \in 1..Len(ids) |->
                  CHOOSE p \in RunPeople : p.person_id = ids[i] ] ]

MemorySummaries ==
    [ entries |->
          LET ids == SortedSeq({ m.memory_id : m \in RunMemoryDocs })
          IN  [ i \in 1..Len(ids) |->
                  CHOOSE m \in RunMemoryDocs : m.memory_id = ids[i] ] ]

\* mutant: only the empty text counts as blank
IsBlank_m1(msg) == msg = << >>

\* str.strip() of the instruction is empty
IsBlank(msg) == \A i \in 1..Len(msg) : msg[i] \in {"", " "}

EvidencePack(msg) ==
    IF IsBlank(msg)
    THEN [ items |-> << >>, query_used |-> None, retrieval_method |-> Some("fts") ]
    ELSE [ items |-> FtsHits, query_used |-> Some(msg),
           retrieval_method |-> Some("fts") ]

load_world_snapshot_update(st, d, logs) ==
    [ st EXCEPT !.context_packet =
        [ current_packet(st) EXCEPT !.world_snapshot = Some(WorldSnapshot(d, logs)) ] ]

build_anchor_lane_update(st) ==
    [ st EXCEPT !.context_packet =
        [ current_packet(st) EXCEPT !.people_time_anchor = Some(PeopleTimeAnchor) ] ]

memory_retrieve_update(st) ==
    [ st EXCEPT !.context_packet =
        [ current_packet(st) EXCEPT !.memory_summaries = Some(MemorySummaries) ] ]

retrieve_evidence_pack_update(st) ==
    [ st EXCEPT !.context_packet =
        [ current_packet(st) EXCEPT !.evidence_pack = Some(EvidencePack(st.user_message)) ] ]

Bookkeeping == << db, tool_logs, turn, llm_calls, tool_runs, at_start, gate_seen,
                  last_raw, last_outcome, response, llm_request, thread_vars,
                  compiler_vars, clear_vars >>

load_world_snapshot ==
    /\ Visit("load_world_snapshot", "build_anchor_lane")
    /\ state' = load_world_snapshot_update(state, db, tool_logs)
    /\ UNCHANGED << Bookkeeping, clock, fts_calls >>

build_anchor_lane ==
    /\ Visit("build_anchor_lane", "memory_retrieve")
    /\ state' = build_anchor_lane_update(state)
    /\ UNCHANGED << Bookkeeping, clock, fts_calls >>

memory_retrieve ==
    /\ Visit("memory_retrieve", "retrieve_evidence_pack")
    /\ state' = memory_retrieve_update(state)
    /\ UNCHANGED << Bookkeeping, clock, fts_calls >>

retrieve_evidence_pack ==
    /\ Visit("retrieve_evidence_pack", "context_compiler")
    /\ state' = retrieve_evidence_pack_update(state)
    /\ fts_calls' = IF IsBlank(state.user_message) THEN fts_calls ELSE fts_calls + 1
    /\ UNCHANGED << Bookkeeping, clock >>

\* ------------------------------------------------------------------------
\* Context compiler (node 5)
\* ------------------------------------------------------------------------

\* _est_tokens: chars / 4, rounded down
est_tokens(chars) == chars \div 4

RECURSIVE SumChars(_)
SumChars(list) ==
    IF list = << >> THEN 0 ELSE Head(list).chars + SumChars(Tail(list))

\* length of the JSON of a lane: its scalar fields, then the list "[a,b,c]"
LaneChars(base, list) ==
    base + 2 + SumChars(list) + (IF Len(list) > 1 THEN Len(list) - 1 ELSE 0)

\* lengths of the scalar fields of the four lanes
WorldSnapshotBaseChars == 260

AnchorBaseChars == 100

MemoryBaseChars == 11

EvidenceBaseChars == 60

\* mutant: one element at most is removed
TrimLane_m1(base, list, lane_budget) ==
    IF est_tokens(LaneChars(base, list)) > lane_budget /\ list # << >>
    THEN SubSeq(list, 1, Len(list) - 1)
    ELSE list

RECURSIVE TrimLane_m2(_, _, _)
\* mutant: a lane that fills its budget exactly is trimmed as well
TrimLane_m2(base, list, lane_budget) ==
    IF est_tokens(LaneChars(base, list)) >= lane_budget /\ list # << >>
    THEN TrimLane_m2(base, SubSeq(list, 1, Len(list) - 1), lane_budget)
    ELSE list

RECURSIVE TrimLane(_, _, _)
\* while the lane is over budget and the list is not empty: list.pop()
TrimLane(base, list, lane_budget) ==
    IF est_tokens(LaneChars(base, list)) > lane_budget /\ list # << >>
    THEN TrimLane(base, SubSeq(list, 1, Len(list) - 1), lane_budget)
    ELSE list

context_compiler_packet(packet, now) ==
    LET budget == packet.token_budget
        ws == IF packet.world_snapshot # None
                 /\ packet.world_snapshot[1].last_tool_outcomes # << >>
              THEN Some([ packet.world_snapshot[1] EXCEPT !.last_tool_outcomes =
                            TrimLane(WorldSnapshotBaseChars, @, budget.world_snapshot) ])
              ELSE packet.world_snapshot
        pta == IF packet.people_time_anchor # None
                  /\ packet.people_time_anchor[1].people # << >>
               THEN Some([ packet.people_time_anchor[1] EXCEPT !.people =
                            TrimLane(AnchorBaseChars, @, budget.people_time_anchor) ])
               ELSE packet.people_time_anchor
        ms == IF packet.memory_summaries # None
                 /\ packet.memory_summaries[1].entries # << >>
              THEN Some([ packet.memory_summaries[1] EXCEPT !.entries =
                            TrimLane(MemoryBaseChars, @, budget.memory_summaries) ])
              ELSE packet.memory_summaries
        ep == IF packet.evidence_pack # None
                 /\ packet.evidence_pack[1].items # << >>
              THEN Some([ packet.evidence_pack[1] EXCEPT !.items =
                            TrimLane(EvidenceBaseChars, @, budget.evidence_pack) ])
              ELSE packet.evidence_pack
    IN  [ packet EXCEPT !.world_snapshot = ws, !.people_time_anchor = pta,
                        !.memory_summaries = ms, !.evidence_pack = ep,
                        !.compiled_at = Some(now) ]

context_compiler_update(st, now) ==
    [ st EXCEPT !.context_packet = context_compiler_packet(current_packet(st), now) ]

\* datetime.now(timezone.utc): a reading later than the one before
clock_read(t) == t + 1

context_compiler ==
    /\ Visit("context_compiler", "planner")
    /\ clock' = clock_read(clock)
    /\ state' = context_compiler_update(state, clock')
    /\ UNCHANGED << Bookkeeping, fts_calls >>

\* ------------------------------------------------------------------------
\* The compiler applied to packets of any filling (compiler model)
\* ------------------------------------------------------------------------

\* length of the JSON of the i-th element of a lane: long and short elements
\* alternate, the long one first in the first and third lane
ElementChars(long_first, i) ==
    IF (i % 2 = 1) = long_first THEN 300 ELSE 40

WorldSnapshotInputs ==
    {None} \cup
    { Some([ run_status |-> "PROCESSING", open_contradictions |-> 0,
             open_tasks |-> 0, active_locks |-> 0,
             last_tool_outcomes |->
                 [ i \in 1..n |-> [ name |-> ToString(i), success |-> TRUE,
                                    chars |-> ElementChars(TRUE, i) ] ] ])
      : n \in 0..MaxLaneLen }

PeopleTimeAnchorInputs ==
    {None} \cup
    { Some([ people |->
                 [ i \in 1..n |-> [ name |-> ToString(i), person_id |-> i,
                                    chars |-> ElementChars(FALSE, i) ] ] ])
      : n \in 0..MaxLaneLen }

MemorySummariesInputs ==
    {None} \cup
    { Some([ entries |->
                 [ i \in 1..n |-> [ chars |-> ElementChars(TRUE, i), memory_id |-> i,
                                    path |-> "memory/summary.md" ] ] ])
      : n \in 0..MaxLaneLen }

EvidencePackInputs ==
    {None} \cup
    { Some([ items |->
                 [ i \in 1..n |-> [ chars |-> ElementChars(FALSE, i), segment_id |-> i,
                                    score |-> None ] ],
             query_used |-> Some(<<"list people">>),
             retrieval_method |-> Some("fts") ])
      : n \in 0..MaxLaneLen }

\* budgets under which nothing fits, a part of the list fits, everything fits
TokenBudgetInputs ==
    [ world_snapshot : {0, 140, budget_world_snapshot},
      people_time_anchor : {30, 35, budget_people_time_anchor},
      memory_summaries : {2, 78, budget_memory_summaries},
      evidence_pack : {15, 99, budget_evidence_pack},
      total : {budget_total} ]

CompilerPackets ==
    [ world_snapshot : WorldSnapshotInputs,
      people_time_anchor : PeopleTimeAnchorInputs,
      memory_summaries : MemorySummariesInputs,
      evidence_pack : EvidencePackInputs,
      token_budget : TokenBudgetInputs,
      compiled_at : {None} ]

\* context_compiler runs on the packet of the state
cc_compile ==
    /\ cc_runs < MaxCompiles
    /\ clock' = clock_read(clock)
    /\ cc_before' = cc_packet
    /\ cc_packet' = context_compiler_packet(cc_packet, clock')
    /\ cc_runs' = cc_runs + 1
    /\ UNCHANGED << state, db, tool_logs, pc, turn, path, llm_calls, tool_runs,
                    at_start, gate_seen, last_raw, last_outcome, response,
                    llm_request, fts_calls, thread_vars, clear_vars >>

\* ------------------------------------------------------------------------
\* Planner (node 11)
\* ------------------------------------------------------------------------

\* mutant: a done decision may carry tool requests
validate_consistency_m1(d) ==
    IF d.done
    THEN /\ d.stop_reason # ""
         /\ d.draft_response # << >>
    ELSE d.tool_requests # << >>

\* PlannerDecision.validate_consistency: the decision is accepted
validate_consistency(d) ==
    IF d.done
    THEN /\ d.stop_reason # ""
         /\ d.draft_response # << >>
         /\ d.tool_requests = << >>
    ELSE d.tool_requests # << >>

\* PlannerDecision.model_validate_json(raw) returns a decision
model_validate_json_ok(raw) == raw.json /\ validate_consistency(raw)

get_valid_tool_names == TOOL_REGISTRY

\* the first requested tool name that is not registered, if any
FirstUnknownTool(trs) ==
    LET bad == { i \in 1..Len(trs) : trs[i].tool_name \notin get_valid_tool_names }
    IN  IF bad = {} THEN None
        ELSE Some(trs[CHOOSE i \in bad : \A j \in bad : i <= j].tool_name)

\* mutant: the guard lets one more step through
planner_max_steps_guard_m1(st) == st.step_count > st.max_steps

\* the step ceiling is reached: the planner returns before calling the LLM
planner_max_steps_guard(st) == st.step_count >= st.max_steps

\* mutant: the ceiling is reported but the tool queue is left as it was
planner_max_steps_update_m1(st) ==
    [ st EXCEPT !.stop_reason = "max_steps", !.exit_requested = TRUE ]

\* mutant: the ceiling is reported under another name
planner_max_steps_update_m2(st) ==
    [ st EXCEPT !.stop_reason = "step_limit", !.tool_queue = << >>,
                !.exit_requested = TRUE ]

\* the ceiling is reached: stop with max_steps
planner_max_steps_update(st) ==
    [ st EXCEPT !.stop_reason = "max_steps", !.tool_queue = << >>,
                !.exit_requested = TRUE ]

\* mutant: the parse failure is reported but the tool queue is left as it was
planner_parse_error_update_m1(st) ==
    [ st EXCEPT !.stop_reason = "error",
                !.errors = Append(@, <<"Planner parse error: ", "validation">>),
                !.exit_requested = TRUE ]

\* the answer is not a PlannerDecision
planner_parse_error_update(st) ==
    [ st EXCEPT !.stop_reason = "error",
                !.errors = Append(@, <<"Planner parse error: ", "validation">>),
                !.tool_queue = << >>,
                !.exit_requested = TRUE ]

\* mutant: the unknown tool is reported but the requests are enqueued anyway
planner_unknown_tool_update_m1(st, raw) ==
    [ st EXCEPT !.stop_reason = "error",
                !.errors = Append(@, <<"Unknown tool: ",
                                       FirstUnknownTool(raw.tool_requests)[1]>>),
                !.tool_queue = raw.tool_requests,
                !.exit_requested = TRUE ]

\* a requested tool is not registered
planner_unknown_tool_update(st, raw) ==
    [ st EXCEPT !.stop_reason = "error",
                !.errors = Append(@, <<"Unknown tool: ",
                                       FirstUnknownTool(raw.tool_requests)[1]>>),
                !.tool_queue = << >>,
                !.exit_requested = TRUE ]

\* mutant: the draft response replaces the transcript
planner_done_update_m1(st, raw) ==
    [ st EXCEPT !.stop_reason = raw.stop_reason,
                !.messages = << [ role |-> "assistant",
                                  content |-> raw.draft_response,
                                  tool_call_id |-> None,
                                  tool_name |-> None ] >>,
                !.tool_queue = << >>,
                !.exit_requested = TRUE ]

\* done: the draft response becomes an assistant message
planner_done_update(st, raw) ==
    [ st EXCEPT !.stop_reason = raw.stop_reason,
                !.messages = Append(@, [ role |-> "assistant",
                                         content |-> raw.draft_response,
                                         tool_call_id |-> None,
                                         tool_name |-> None ]),
                !.tool_queue = << >>,
                !.exit_requested = TRUE ]

\* mutant: the step counter is left as it was
planner_enqueue_update_m1(st, raw) ==
    [ st EXCEPT !.tool_queue = raw.tool_requests,
                !.exit_requested = FALSE ]

\* not done: the requests replace the tool queue
planner_enqueue_update(st, raw) ==
    [ st EXCEPT !.tool_queue = raw.tool_requests,
                !.step_count = @ + 1,
                !.exit_requested = FALSE ]

\* the planner's update once the LLM has answered raw
planner_update(st, raw) ==
    IF ~ model_validate_json_ok(raw) THEN planner_parse_error_update(st)
    ELSE IF ~ raw.done /\ FirstUnknownTool(raw.tool_requests) # None
    THEN planner_unknown_tool_update(st, raw)
    ELSE IF raw.done THEN planner_done_update(st, raw)
    ELSE planner_enqueue_update(st, raw)

\* the messages of the LLM call: the system prompt, the instruction, then
\* the transcript
planner_messages(st) ==
    << [ role |-> "system", content |-> <<"system prompt">>,
         tool_call_id |-> None, tool_name |-> None ],
       [ role |-> "user", content |-> st.user_message,
         tool_call_id |-> None, tool_name |-> None ] >>
    \o st.messages

\* planner -> tool_executor when the tool queue is not empty, else gate_evaluator
route_after_planner(st) ==
    IF st.tool_queue # << >> THEN "tool_executor" ELSE "gate_evaluator"

planner ==
    /\ pc = "planner"
    /\ path' = Append(path, "planner")
    /\ IF planner_max_steps_guard(state)
       THEN /\ state' = planner_max_steps_update(state)
            /\ llm_calls' = llm_calls
            /\ last_raw' = None
            /\ llm_request' = llm_request
       ELSE /\ \E raw \in RawOutputs(turn) :
                  /\ state' = planner_update(state, raw)
                  /\ last_raw' = Some(raw)
            /\ llm_calls' = llm_calls + 1
            /\ llm_request' = Some(planner_messages(state))
    /\ pc' = route_after_planner(state')
    /\ UNCHANGED << db, tool_logs, turn, tool_runs, at_start,
                    gate_seen, last_outcome, response, clock, fts_calls, thread_vars,
                    compiler_vars, clear_vars >>

\* ------------------------------------------------------------------------
\* Tool executor (node 6)
\* ------------------------------------------------------------------------

\* the result payload and the success flag of one call
ToolResult(name, outcome) ==
    IF outcome = "raise_KeyError"
    THEN [ success |-> FALSE, result |-> [error |-> Some(<<"Unknown tool: ", name>>)] ]
    ELSE IF outcome = "raise"
    THEN [ success |-> FALSE, result |-> [error |-> Some(<<"handler exception">>)] ]
    ELSE IF outcome = "return_error"
    THEN [ success |-> TRUE, result |-> [error |-> Some(<<"handler error payload">>)] ]
    ELSE [ success |-> TRUE, result |-> [error |-> None] ]

\* json.dumps(result): the content of the tool message
ResultJson(result) ==
    IF result.error = None THEN <<"{}">>
    ELSE <<"{error: ">> \o result.error[1] \o <<"}">>

\* request.idempotency_key or a fresh "tool_call_<run>_<time_ns>"
tool_call_id(request, logs) ==
    IF request.idempotency_key # None
    THEN << request.idempotency_key[1] >>
    ELSE << "tool_call_", ToString(Len(logs) + 1) >>

\* mutant: the failure note is appended when the call succeeded
tool_failure_note_m1(errors, tool_name, success) ==
    IF success THEN Append(errors, <<"Tool ", tool_name, " failed">>) ELSE errors

\* the error list after the call: a note is appended when it failed
tool_failure_note(errors, tool_name, success) ==
    IF success THEN errors ELSE Append(errors, <<"Tool ", tool_name, " failed">>)

\* mutant: the whole queue is dropped after one call
queue_rest_m1(queue_raw) == << >>

\* queue_raw[1:]
queue_rest(queue_raw) == Tail(queue_raw)

\* the state update of tool_executor for the request at the front of the queue
tool_executor_update(st, outcome, logs) ==
    IF st.tool_queue = << >> THEN st
    ELSE
    LET request == Head(st.tool_queue)
        tool_name == request.tool_name
        call_id == tool_call_id(request, logs)
        res == ToolResult(tool_name, outcome)
        assistant_tool_call_message ==
            [ role |-> "assistant", content |-> << >>,
              tool_call_id |-> Some(call_id), tool_name |-> Some(tool_name) ]
        tool_message ==
            [ role |-> "tool", content |-> ResultJson(res.result),
              tool_call_id |-> Some(call_id), tool_name |-> None ]
    IN  [ st EXCEPT
            !.tool_queue = queue_rest(@),
            !.last_tool_result =
                Some([ tool_name |-> tool_name, result |-> res.result,
                       success |-> res.success ]),
            !.messages = @ \o << assistant_tool_call_message, tool_message >>,
            !.errors = tool_failure_note(@, tool_name, res.success) ]

\* the ToolCallLog row written for the call
ToolCallLog(st, outcome) ==
    LET tool_name == Head(st.tool_queue).tool_name
        res == ToolResult(tool_name, outcome)
    IN  [ tool_name |-> tool_name, success |-> res.success, result |-> res.result ]

\* mutant: the changes of a handler that raised are kept
session_after_m1(d, pending, outcome) == pending

\* the business state after the call: pending is what the handler has done
\* in the session when it returns or raises; session.commit() makes it the
\* state when the handler returned, session.rollback() discards it when the
\* lookup or the handler raised
session_after(d, pending, outcome) ==
    IF outcome \in {"return", "return_error"} THEN pending ELSE d

tool_executor ==
    /\ pc = "tool_executor"
    /\ pc' = "gate_evaluator"
    /\ path' = << >>
    /\ tool_runs' = tool_runs + 1
    /\ IF state.tool_queue = << >>
       THEN UNCHANGED << state, db, tool_logs, last_outcome >>
       ELSE \E outcome \in HandlerOutcomes :
              /\ state' = tool_executor_update(state, outcome, tool_logs)
              /\ tool_logs' = Append(tool_logs, ToolCallLog(state, outcome))
              /\ \E pending \in HandlerEffects(db) :
                    db' = session_after(db, pending, outcome)
              /\ last_outcome' = Some(outcome)
    /\ UNCHANGED << turn, llm_calls, at_start, gate_seen, last_raw, response,
                    llm_request, clock, fts_calls, thread_vars, compiler_vars,
                    clear_vars >>

\* ------------------------------------------------------------------------
\* Gate evaluator (node 7) and its routing
\* ------------------------------------------------------------------------

\* _build_gate_snapshot: the open blocking items of the run, ordered by id
build_gate_snapshot(d) ==
    [ blocking_contradictions |-> SortedSeq(d.contradictions),
      required_tasks |-> SortedSeq(d.tasks),
      active_locks |-> SortedSeq(d.locks),
      counts |-> [ blocking_contradictions |-> Cardinality(d.contradictions),
                   required_tasks |-> Cardinality(d.tasks),
                   active_locks |-> Cardinality(d.locks) ] ]

\* mutant: active locks are not counted
snapshot_blocked_m1(snapshot) ==
    \/ snapshot.counts.blocking_contradictions # 0
    \/ snapshot.counts.required_tasks # 0

\* any(snapshot["counts"].values())
snapshot_blocked(snapshot) ==
    \/ snapshot.counts.blocking_contradictions # 0
    \/ snapshot.counts.required_tasks # 0
    \/ snapshot.counts.active_locks # 0

\* mutant: a snapshot already in the state is used again
gate_evaluator_update_m1(st, d) ==
    LET snapshot == IF st.gate_snapshot # None THEN st.gate_snapshot[1]
                    ELSE build_gate_snapshot(d)
    IN  [ st EXCEPT !.gate_snapshot = Some(snapshot),
                    !.is_blocked = snapshot_blocked(snapshot) ]

\* the snapshot is built from the database and written with the blocked flag
gate_evaluator_update(st, d) ==
    LET snapshot == build_gate_snapshot(d)
    IN  [ st EXCEPT !.gate_snapshot = Some(snapshot),
                    !.is_blocked = snapshot_blocked(snapshot) ]

\* mutant: the last exit check is missing, a finished turn loops back
route_after_gate_m1(st) ==
    IF st.exit_requested /\ st.stop_reason \in {"error", "max_steps"}
    THEN "summarizer"
    ELSE IF st.is_blocked THEN "human_gate"
    ELSE "load_world_snapshot"

\* mutant: blocked is tested before the error / max_steps exit
route_after_gate_m2(st) ==
    IF st.is_blocked THEN "human_gate"
    ELSE IF st.exit_requested THEN "summarizer"
    ELSE "load_world_snapshot"

\* mutant: the tool loop goes straight back to the planner
route_after_gate_m3(st) ==
    IF st.exit_requested /\ st.stop_reason \in {"error", "max_steps"}
    THEN "summarizer"
    ELSE IF st.is_blocked THEN "human_gate"
    ELSE IF st.exit_requested THEN "summarizer"
    ELSE "planner"

\* mutant: a blocked run goes to the human gate only once exit is requested
route_after_gate_m4(st) ==
    IF st.exit_requested /\ st.stop_reason \in {"error", "max_steps"}
    THEN "summarizer"
    ELSE IF st.is_blocked /\ st.exit_requested THEN "human_gate"
    ELSE IF st.exit_requested THEN "summarizer"
    ELSE "load_world_snapshot"

\* _route_after_gate: "finalize" leads to the summarizer, "blocked" to the
\* human gate, "continue_tool_loop" to load_world_snapshot
route_after_gate(st) ==
    IF st.exit_requested /\ st.stop_reason \in {"error", "max_steps"}
    THEN "summarizer"
    ELSE IF st.is_blocked THEN "human_gate"
    ELSE IF st.exit_requested THEN "summarizer"
    ELSE "load_world_snapshot"

gate_evaluator ==
    /\ pc = "gate_evaluator"
    /\ path' = Append(path, "gate_evaluator")
    /\ state' = gate_evaluator_update(state, db)
    /\ gate_seen' = Append(gate_seen, build_gate_snapshot(db))
    /\ pc' = route_after_gate(state')
    /\ UNCHANGED << db, tool_logs, turn, llm_calls, tool_runs, at_start,
                    last_raw, last_outcome, response, llm_request, clock,
                    fts_calls, thread_vars, compiler_vars, clear_vars >>

\* ------------------------------------------------------------------------
\* Human gate (node 8)
\* ------------------------------------------------------------------------

\* the content of the most recent assistant message with non-empty content,
\* or the empty text
RECURSIVE last_assistant_content(_)
last_assistant_content(messages) ==
    IF messages = << >> THEN << >>
    ELSE LET msg == messages[Len(messages)]
         IN  IF msg.role = "assistant" /\ msg.content # << >>
             THEN msg.content
             ELSE last_assistant_content(SubSeq(messages, 1, Len(messages) - 1))

\* mutant: the lock actions come first
required_actions_of_m1(snapshot) ==
    [ i \in 1..Len(snapshot.active_locks) |->
        [ action |-> "SUPERSEDE_LOCK", id |-> snapshot.active_locks[i] ] ]
    \o [ i \in 1..Len(snapshot.required_tasks) |->
        [ action |-> "RESOLVE_TASK", id |-> snapshot.required_tasks[i] ] ]
    \o [ i \in 1..Len(snapshot.blocking_contradictions) |->
        [ action |-> "RESOLVE_CONTRADICTION", id |-> snapshot.blocking_contradictions[i] ] ]

required_actions_of(snapshot) ==
    [ i \in 1..Len(snapshot.required_tasks) |->
        [ action |-> "RESOLVE_TASK", id |-> snapshot.required_tasks[i] ] ]
    \o [ i \in 1..Len(snapshot.blocking_contradictions) |->
        [ action |-> "RESOLVE_CONTRADICTION", id |-> snapshot.blocking_contradictions[i] ] ]
    \o [ i \in 1..Len(snapshot.active_locks) |->
        [ action |-> "SUPERSEDE_LOCK", id |-> snapshot.active_locks[i] ] ]

human_gate_update(st, d) ==
    LET prior_stop_reason == st.stop_reason
        snapshot == IF st.gate_snapshot # None THEN st.gate_snapshot[1]
                    ELSE build_gate_snapshot(d)
        ask_user_prompt == IF prior_stop_reason = "ask_user"
                           THEN last_assistant_content(st.messages)
                           ELSE << >>
        payload == [ status |-> "NEEDS_REVIEW",
                     required_actions |-> required_actions_of(snapshot),
                     blocking_contradictions |-> snapshot.blocking_contradictions,
                     required_tasks |-> snapshot.required_tasks,
                     active_locks |-> snapshot.active_locks,
                     user_prompt |-> IF ask_user_prompt # << >>
                                     THEN Some(ask_user_prompt) ELSE None ]
    IN  [ st EXCEPT !.is_blocked = TRUE,
                    !.stop_reason = IF prior_stop_reason = "ask_user"
                                    THEN "ask_user" ELSE "blocked",
                    !.gate_snapshot = Some(snapshot),
                    !.needs_review_payload = Some(payload) ]

human_gate ==
    /\ Visit("human_gate", "summarizer")
    /\ state' = human_gate_update(state, db)
    /\ UNCHANGED << Bookkeeping, clock, fts_calls >>

\* ------------------------------------------------------------------------
\* Summarizer (node 9) and finalizer (node 10)
\* ------------------------------------------------------------------------

summarizer_update(st) ==
    LET summary ==
          IF st.stop_reason = "blocked" THEN <<"Turn paused for human review.">>
          ELSE IF st.stop_reason = "error" THEN <<"Turn stopped due to an error.">>
          ELSE IF st.stop_reason = "max_steps"
          THEN <<"Turn stopped after reaching max steps.">>
          ELSE IF st.last_tool_result # None
          THEN <<"Executed tool ", st.last_tool_result[1].tool_name,
                 IF st.last_tool_result[1].success THEN " (success)." ELSE " (failed).">>
          ELSE <<"Turn complete.">>
    IN  [ st EXCEPT !.summary_text = Some(summary) ]

summarizer ==
    /\ Visit("summarizer", "finalizer")
    /\ state' = summarizer_update(state)
    /\ UNCHANGED << Bookkeeping, clock, fts_calls >>

\* mutant: the blocked branch reports the stop reason as the status
finalizer_status_m1(st) ==
    IF st.stop_reason \in {"error", "max_steps"} THEN "ERROR"
    ELSE IF st.stop_reason = "ask_user" \/ st.is_blocked \/ st.stop_reason = "blocked"
    THEN "BLOCKED"
    ELSE "OK"

\* mutant: the review branch is tested before the error branch
finalizer_status_m2(st) ==
    IF st.stop_reason = "ask_user" \/ st.is_blocked \/ st.stop_reason = "blocked"
    THEN "NEEDS_REVIEW"
    ELSE IF st.stop_reason \in {"error", "max_steps"} THEN "ERROR"
    ELSE "OK"

\* the status the finalizer chooses
finalizer_status(st) ==
    IF st.stop_reason \in {"error", "max_steps"} THEN "ERROR"
    ELSE IF st.stop_reason = "ask_user" \/ st.is_blocked \/ st.stop_reason = "blocked"
    THEN "NEEDS_REVIEW"
    ELSE "OK"

finalizer_payload(st) ==
    LET stop_reason == st.stop_reason
        status == finalizer_status(st)
        assistant_message == last_assistant_content(st.messages)
    IN  IF status = "ERROR"
        THEN [ status |-> status,
               message |-> IF st.errors # << >> THEN Last(st.errors)
                           ELSE <<"Agent stopped with reason: ", stop_reason>>,
               next_actions |-> << >> ]
        ELSE IF status = "NEEDS_REVIEW"
        THEN [ status |-> status,
               message |-> IF assistant_message # << >> THEN assistant_message
                           ELSE <<"Human review required before continuing.">>,
               next_actions |-> IF st.needs_review_payload # None
                                THEN st.needs_review_payload[1].required_actions
                                ELSE << >> ]
        ELSE [ status |-> status,
               message |-> IF assistant_message # << >> THEN assistant_message
                           ELSE IF st.summary_text # None THEN st.summary_text[1]
                           ELSE <<"Turn complete.">>,
               next_actions |-> << >> ]

finalizer_update(st) ==
    [ st EXCEPT !.finalized = TRUE, !.final_payload = Some(finalizer_payload(st)) ]

finalizer ==
    /\ Visit("finalizer", "END")
    /\ state' = finalizer_update(state)
    /\ UNCHANGED << Bookkeeping, clock, fts_calls >>

\* ------------------------------------------------------------------------
\* The turn entrypoint returns
\* ------------------------------------------------------------------------

\* AgentMessageResponse built from result["final_payload"]
\* snippet[:240]
snippet_limit == 240

\* one citation per evidence item of the final packet whose content is not
\* blank, with the first 240 characters of the content
extract_citations(result) ==
    LET pack == result.context_packet.evidence_pack
        raw_evidence == IF pack = None THEN << >> ELSE pack[1].items
        kept == SelectSeq(raw_evidence, LAMBDA item : item.chars > 0)
    IN  [ i \in 1..Len(kept) |->
            [ segment_id |-> kept[i].segment_id,
              snippet_chars |-> IF kept[i].chars < snippet_limit
                                THEN kept[i].chars ELSE snippet_limit,
              score |-> kept[i].score ] ]

AgentMessageResponse(result) ==
    IF result.final_payload # None
    THEN [ status |-> result.final_payload[1].status,
           message |-> result.final_payload[1].message,
           next_actions |-> result.final_payload[1].next_actions,
           citations |-> extract_citations(result) ]
    ELSE [ status |-> "ERROR", message |-> <<"Agent did not return a message.">>,
           next_actions |-> << >>,
           citations |-> extract_citations(result) ]

send_message_return ==
    /\ pc = "END"
    /\ pc' = "idle"
    /\ response' = AgentMessageResponse(state)
    /\ UNCHANGED << state, db, tool_logs, turn, path, llm_calls, tool_runs,
                    at_start, gate_seen, last_raw, last_outcome, llm_request,
                    clock, fts_calls, thread_vars, compiler_vars, clear_vars >>

Next ==
    \/ send_message_invoke
    \/ load_world_snapshot
    \/ build_anchor_lane
    \/ memory_retrieve
    \/ retrieve_evidence_pack
    \/ context_compiler
    \/ planner
    \/ tool_executor
    \/ gate_evaluator
    \/ human_gate
    \/ summarizer
    \/ finalizer
    \/ send_message_return

Spec == Init /\ [][Next]_vars

\* the thread model: requests of several threads served side by side
InitThreads ==
    /\ Init
    /\ state.max_steps = 0
    /\ db = [ tasks |-> {}, contradictions |-> {}, locks |-> {} ]

NextThreads ==
    \/ thread_invoke
    \/ thread_step
    \/ thread_return

SpecThreads == InitThreads /\ [][NextThreads]_vars

\* the graph model with instructions that may be blank
InitBlank ==
    /\ Init
    /\ state.max_steps = 1

NextBlank ==
    \/ send_message_invoke_any
    \/ load_world_snapshot
    \/ build_anchor_lane
    \/ memory_retrieve
    \/ retrieve_evidence_pack
    \/ context_compiler
    \/ planner
    \/ tool_executor
    \/ gate_evaluator
    \/ human_gate
    \/ summarizer
    \/ finalizer
    \/ send_message_return

SpecBlank == InitBlank /\ [][NextBlank]_vars

\* the checkpoint store model: turns of several threads and clear_checkpoints
NextClear ==
    \/ thread_invoke_serial
    \/ thread_step
    \/ thread_return
    \/ clear_checkpoints

SpecClear == InitThreads /\ [][NextClear]_vars

\* the compiler model: context_compiler applied again and again to a packet
InitCompiler ==
    /\ GraphInit
    /\ state.max_steps = 0
    /\ db = [ tasks |-> {}, contradictions |-> {}, locks |-> {} ]
    /\ ThreadInit
    /\ cc_packet \in CompilerPackets
    /\ cc_before = cc_packet
    /\ cc_runs = 0

NextCompiler == cc_compile

SpecCompiler == InitCompiler /\ [][NextCompiler]_vars

\* every turn that has started runs on; the graph runner always takes the
\* next node
FairSpec == Spec /\ WF_vars(Next)

\* ------------------------------------------------------------------------
\* Properties
\* ------------------------------------------------------------------------

Statuses == {"OK", "NEEDS_REVIEW", "ERROR"}

\* the turn in progress has reached END, or has returned
TurnOver == pc \in {"END", "idle"} /\ turn > 0

\* the planner has requested exit in the turn in progress
ExitedThisTurn ==
    /\ pc \notin {"idle"}
    /\ state.exit_requested
    /\ \E i \in 1..Len(path) : path[i] = "planner"

\* C1: every turn ends at the finalizer: END is entered from the finalizer
\* only, the finalizer has then written a final payload whose status is one of
\* OK, NEEDS_REVIEW, ERROR, that status is the one the entrypoint returns, and
\* no node of a turn is without a successor.
C1_TurnEndsAtFinalizer ==
    /\ pc = "END" =>
          /\ path # << >> /\ Last(path) = "finalizer"
          /\ state.finalized
          /\ state.final_payload # None
          /\ state.final_payload[1].status \in Statuses
    /\ (pc = "idle" /\ turn > 0) =>
          /\ state.final_payload # None
          /\ response.status = state.final_payload[1].status
          /\ response.status \in Statuses
    /\ pc \in Nodes => ENABLED Next

\* C1 witness: a turn whose tool handler raised has ended with a status
C1_Witness ==
    /\ pc = "END"
    /\ last_outcome = Some("raise")
    /\ state.final_payload[1].status = "ERROR"

\* ------------------------------------------------------------------------
\* C2: the step ceiling
\* ------------------------------------------------------------------------

\* the run has no open blocking item in the database state d
NoBlockingItems(d) ==
    d.contradictions = {} /\ d.tasks = {} /\ d.locks = {}

\* a gate snapshot with zero blocking contradictions, tasks and locks
ZeroCounts(snapshot) ==
    /\ snapshot.counts.blocking_contradictions = 0
    /\ snapshot.counts.required_tasks = 0
    /\ snapshot.counts.active_locks = 0

\* the first turn of a thread on a run without blocking items, in which every
\* answer of the LLM so far was a valid tool request (each one, and nothing
\* else, advances the step counter)
C2_AlwaysToolRequest ==
    /\ turn = 1
    /\ NoBlockingItems(at_start.db)
    /\ llm_calls = state.step_count

\* what the claim says of such a turn once it is over
C2_CeilingReached ==
    /\ llm_calls = state.max_steps
    /\ tool_runs = state.max_steps
    /\ last_raw = None
    /\ state.stop_reason = "max_steps"
    /\ state.tool_queue = << >>
    /\ state.exit_requested
    /\ Last(path) = "finalizer"

\* C2: from a fresh state, on a run where no gate evaluation of the turn
\* finds a blocking item, a planner that answers every LLM call with a valid
\* tool request makes the turn perform exactly max_steps LLM calls and
\* max_steps tool executions; the planner invocation after them makes no LLM
\* call, sets stop_reason = max_steps, empties the queue and requests exit,
\* and the turn ends at the finalizer.  No turn ever makes more LLM calls or
\* tool executions than the steps the ceiling leaves.
C2_StepCeiling ==
    /\ (pc = "END" /\ C2_AlwaysToolRequest
          /\ \A i \in 1..Len(gate_seen) : ZeroCounts(gate_seen[i]))
        => C2_CeilingReached
    /\ turn > 0 =>
          /\ state.step_count <= state.max_steps
          /\ llm_calls + at_start.step_count <= state.max_steps
          /\ tool_runs + at_start.step_count <= state.max_steps

\* C2 witness: a turn with ceiling 2 has ended after two LLM calls and two
\* tool executions
C2_Witness ==
    /\ pc = "END" /\ C2_AlwaysToolRequest
    /\ \A i \in 1..Len(gate_seen) : ZeroCounts(gate_seen[i])
    /\ state.max_steps = 2 /\ llm_calls = 2 /\ tool_runs = 2
    /\ state.stop_reason = "max_steps"

\* ------------------------------------------------------------------------
\* C3: OK needs a clean gate
\* ------------------------------------------------------------------------

\* the latest answer of the LLM in this turn is done=true with "complete"
C3_DoneComplete ==
    /\ last_raw # None
    /\ model_validate_json_ok(last_raw[1])
    /\ last_raw[1].done
    /\ last_raw[1].stop_reason = "complete"

\* C3: a turn that ends OK had a gate evaluation, and the last one found zero
\* blocking contradictions, zero required tasks and zero active locks; a
\* done=true / complete decision on a run the gate finds blocked goes to the
\* human gate and ends NEEDS_REVIEW.
C3_OkOnlyIfGateClean ==
    /\ (pc = "END" /\ state.final_payload[1].status = "OK") =>
          /\ gate_seen # << >>
          /\ ZeroCounts(Last(gate_seen))
          /\ Last(gate_seen) = build_gate_snapshot(db)
    /\ (C3_DoneComplete /\ gate_seen # << >> /\ ~ ZeroCounts(Last(gate_seen))) =>
          /\ pc \in {"human_gate", "summarizer", "finalizer", "END", "idle"}
          /\ pc # "human_gate" => "human_gate" \in { path[i] : i \in 1..Len(path) }
          /\ pc \in {"END", "idle"} => state.final_payload[1].status = "NEEDS_REVIEW"

\* C3 witness: the planner said done / complete, the run has a blocking item,
\* and the turn has ended NEEDS_REVIEW
C3_Witness ==
    /\ pc = "END"
    /\ C3_DoneComplete
    /\ ~ ZeroCounts(Last(gate_seen))
    /\ state.final_payload[1].status = "NEEDS_REVIEW"

\* ------------------------------------------------------------------------
\* C4: the finalizer's mapping
\* ------------------------------------------------------------------------

\* the positions of the assistant messages with non-empty content
C4_AssistantPositions(messages) ==
    { i \in 1..Len(messages) :
        messages[i].role = "assistant" /\ messages[i].content # << >> }

\* the content of the most recent of them
C4_RecentAssistant(messages) ==
    LET pos == C4_AssistantPositions(messages)
    IN  messages[CHOOSE i \in pos : \A j \in pos : j <= i].content

\* C4: the payload the finalizer has written follows the rule: ERROR for the
\* stop reasons error and max_steps, whatever the blocked flag (message: last
\* error, else a generic text); else NEEDS_REVIEW for ask_user, blocked or a
\* set blocked flag (message: most recent non-empty assistant content, else a
\* generic prompt; next actions: the review payload's required actions); else
\* OK (message: most recent non-empty assistant content, else the summarizer
\* text).
C4_FinalizerMapping ==
    pc = "END" =>
      LET payload == state.final_payload[1]
          has_assistant == C4_AssistantPositions(state.messages) # {}
      IN  /\ payload.status = "ERROR" <=> state.stop_reason \in {"error", "max_steps"}
          /\ payload.status = "NEEDS_REVIEW" <=>
                /\ state.stop_reason \notin {"error", "max_steps"}
                /\ \/ state.stop_reason \in {"ask_user", "blocked"}
                   \/ state.is_blocked
          /\ payload.status = "OK" <=>
                /\ state.stop_reason \notin {"error", "max_steps", "ask_user", "blocked"}
                /\ ~ state.is_blocked
          /\ payload.status = "ERROR" =>
                /\ state.errors # << >> => payload.message = Last(state.errors)
                /\ state.errors = << >> =>
                      payload.message = <<"Agent stopped with reason: ", state.stop_reason>>
                /\ payload.next_actions = << >>
          /\ payload.status = "NEEDS_REVIEW" =>
                /\ has_assistant => payload.message = C4_RecentAssistant(state.messages)
                /\ ~ has_assistant =>
                      payload.message = <<"Human review required before continuing.">>
                /\ state.needs_review_payload # None =>
                      payload.next_actions = state.needs_review_payload[1].required_actions
                /\ state.needs_review_payload = None => payload.next_actions = << >>
          /\ payload.status = "OK" =>
                /\ has_assistant => payload.message = C4_RecentAssistant(state.messages)
                /\ ~ has_assistant =>
                      /\ state.summary_text # None
                      /\ payload.message = state.summary_text[1]
                /\ payload.next_actions = << >>

\* C4 witness: a turn on a blocked run has ended ERROR with the last error as
\* its message
C4_Witness ==
    /\ pc = "END"
    /\ state.is_blocked
    /\ state.stop_reason = "error"
    /\ state.final_payload[1].status = "ERROR"
    /\ state.final_payload[1].message = Last(state.errors)

\* ------------------------------------------------------------------------
\* C5: nothing but the exit path after an exit request
\* ------------------------------------------------------------------------

\* the nodes run after the latest planner invocation recorded in path
AfterPlanner ==
    LET pos == { i \in 1..Len(path) : path[i] = "planner" }
        p == CHOOSE i \in pos : \A j \in pos : j <= i
    IN  SubSeq(path, p + 1, Len(path))

\* the stop reason the planner left when it requested exit: max_steps when
\* it made no LLM call, error for an answer that is not a decision or names
\* an unknown tool, else the stop reason of the done decision
PlannerExitReason ==
    IF last_raw = None THEN "max_steps"
    ELSE IF ~ model_validate_json_ok(last_raw[1]) THEN "error"
    ELSE IF ~ last_raw[1].done THEN "error"
    ELSE last_raw[1].stop_reason

ExitPathPlain == <<"gate_evaluator", "summarizer", "finalizer">>

ExitPathReview == <<"gate_evaluator", "human_gate", "summarizer", "finalizer">>

\* after an exit request only the gate evaluator, the human gate, the
\* summarizer and the finalizer run, in that order, the gate evaluator once
C5_OnlyExitPath ==
    ExitedThisTurn =>
      /\ pc \in {"gate_evaluator", "human_gate", "summarizer", "finalizer", "END"}
      /\ \/ IsPrefix(AfterPlanner, ExitPathPlain)
         \/ IsPrefix(AfterPlanner, ExitPathReview)

\* the first decision of the turn was done=true: one LLM call, no tool
\* executor run, no audit record written
C5_FirstDecisionDone ==
    (/\ pc # "idle" /\ last_raw # None
     /\ model_validate_json_ok(last_raw[1]) /\ last_raw[1].done
     /\ state.step_count = at_start.step_count)
    => /\ llm_calls = 1
       /\ tool_runs = 0
       /\ Len(tool_logs) = at_start.logs

\* C5 as stated: once the planner has requested exit neither the planner nor
\* the tool executor runs again, the gate evaluator runs once and the turn
\* goes on to the summarizer and the finalizer, through the human gate
\* whenever the gate found the run blocked; a first decision done=true means
\* one LLM call, no handler dispatched and no audit record.
C5_Original ==
    /\ C5_OnlyExitPath
    /\ (pc = "END" /\ ExitedThisTurn) =>
          AfterPlanner = IF ZeroCounts(Last(gate_seen))
                         THEN ExitPathPlain ELSE ExitPathReview
    /\ C5_FirstDecisionDone

\* C5, amended: the same, but the human gate is on the way only when the
\* gate found the run blocked and the planner did not stop with error or
\* max_steps.
C5_ExitIsFinal ==
    /\ C5_OnlyExitPath
    /\ (pc = "END" /\ ExitedThisTurn) =>
          AfterPlanner = IF \/ ZeroCounts(Last(gate_seen))
                            \/ PlannerExitReason \in {"error", "max_steps"}
                         THEN ExitPathPlain ELSE ExitPathReview
    /\ C5_FirstDecisionDone

\* C5 witness: the first decision was done=true on a blocked run and the
\* turn has ended through the human gate, after one LLM call
C5_Witness ==
    /\ pc = "END" /\ ExitedThisTurn
    /\ last_raw # None /\ model_validate_json_ok(last_raw[1]) /\ last_raw[1].done
    /\ llm_calls = 1 /\ tool_runs = 0
    /\ AfterPlanner = ExitPathReview

\* ------------------------------------------------------------------------
\* C6: routing after the gate
\* ------------------------------------------------------------------------

\* the gate evaluator was the last node to run in the turn in progress
JustGated ==
    pc # "idle" /\ path # << >> /\ Last(path) = "gate_evaluator"

\* exit was requested with stop reason error or max_steps
HardExit == state.exit_requested /\ state.stop_reason \in {"error", "max_steps"}

\* C6: after each gate evaluation the next node is: the summarizer (the exit
\* path, without the human gate) when exit was requested with stop reason
\* error or max_steps; else the human gate when the run is blocked; else the
\* summarizer when exit was requested; else load_world_snapshot.  So the
\* human gate never runs for a turn stopped with error or max_steps, and the
\* loop back is taken only when exit was not requested and the run is not
\* blocked.
C6_RouteAfterGate ==
    /\ JustGated =>
          /\ state.is_blocked <=> ~ ZeroCounts(Last(gate_seen))
          /\ HardExit => pc = "summarizer"
          /\ (~ HardExit /\ state.is_blocked) => pc = "human_gate"
          /\ (~ HardExit /\ ~ state.is_blocked /\ state.exit_requested)
                => pc = "summarizer"
          /\ (~ state.exit_requested /\ ~ state.is_blocked)
                => pc = "load_world_snapshot"
    /\ pc = "human_gate" => (state.is_blocked /\ ~ HardExit)
    /\ (ExitedThisTurn /\ PlannerExitReason \in {"error", "max_steps"})
          => "human_gate" \notin { path[i] : i \in 1..Len(path) }
    /\ (pc = "load_world_snapshot" /\ path # << >>)
          => (~ state.exit_requested /\ ~ state.is_blocked)

\* C6 witness: the gate has just found the run blocked for a turn stopped
\* with max_steps, and the summarizer is next
C6_Witness ==
    /\ JustGated
    /\ state.is_blocked
    /\ state.exit_requested /\ state.stop_reason = "max_steps"
    /\ pc = "summarizer"

\* ------------------------------------------------------------------------
\* C7: the context is rebuilt before every planner invocation
\* ------------------------------------------------------------------------

ContextNodes ==
    <<"load_world_snapshot", "build_anchor_lane", "memory_retrieve",
      "retrieve_evidence_pack", "context_compiler">>

\* C7: when the planner is about to run, the five context nodes have run
\* last, in order, with no tool execution since the first of them, and the
\* lanes of the packet are the ones built from the database as it is now.
C7_ContextBeforePlanner ==
    pc = "planner" =>
      /\ Len(path) >= 5
      /\ Tail_n(path, 5) = ContextNodes
      /\ state.context_packet.world_snapshot = Some(WorldSnapshot(db, tool_logs))
      /\ state.context_packet.people_time_anchor = Some(PeopleTimeAnchor)
      /\ state.context_packet.memory_summaries = Some(MemorySummaries)
      /\ state.context_packet.evidence_pack = Some(EvidencePack(state.user_message))
      /\ state.context_packet.compiled_at # None

\* C7 witness: the planner is about to run after a tool execution that wrote
\* an audit record, and the world snapshot shows that record
C7_Witness ==
    /\ pc = "planner"
    /\ tool_runs > 0
    /\ Len(tool_logs) > at_start.logs
    /\ state.context_packet.world_snapshot[1].last_tool_outcomes # << >>

\* ------------------------------------------------------------------------
\* C8: a decision that names an unknown tool
\* ------------------------------------------------------------------------

\* raw (an optional LLM answer) is a not-done decision with a tool name that
\* is not in the registry
UnknownToolAnswer(raw) ==
    /\ raw # None
    /\ model_validate_json_ok(raw[1])
    /\ ~ raw[1].done
    /\ \E i \in 1..Len(raw[1].tool_requests) :
          raw[1].tool_requests[i].tool_name \notin TOOL_REGISTRY

\* exactly one entry was appended to the error list by the step
OneErrorAppended ==
    /\ Len(state'.errors) = Len(state.errors) + 1
    /\ IsPrefix(state.errors, state'.errors)

\* the planner step that receives such a decision
C8_PlannerStep ==
    (pc = "planner" /\ UnknownToolAnswer(last_raw')) =>
       /\ state'.stop_reason = "error"
       /\ OneErrorAppended
       /\ Last(state'.errors)[1] = "Unknown tool: "
       /\ Last(state'.errors)[2] \notin TOOL_REGISTRY
       /\ \E i \in 1..Len(last_raw'[1].tool_requests) :
             last_raw'[1].tool_requests[i].tool_name = Last(state'.errors)[2]
       /\ state'.tool_queue = << >>
       /\ state'.exit_requested
       /\ state'.step_count = state.step_count
       /\ pc' = "gate_evaluator"

\* from that decision to the end of the turn no tool executor run and no
\* audit record is added
C8_NothingDispatchedAfter ==
    (pc # "idle" /\ UnknownToolAnswer(last_raw)) =>
       /\ tool_runs' = tool_runs
       /\ tool_logs' = tool_logs
       /\ pc' # "tool_executor"

\* the turn of that decision ends with status ERROR
C8_EndsError ==
    (pc = "END" /\ UnknownToolAnswer(last_raw)) =>
       state.final_payload[1].status = "ERROR"

\* C8 as stated: a not-done decision with an unregistered tool name makes the
\* planner set stop_reason = error, append an error containing "Unknown
\* tool", empty the queue and request exit with the step counter unchanged;
\* the turn has no tool executor run and no audit record at all, and ends
\* ERROR.
C8_Original ==
    /\ [][C8_PlannerStep]_vars
    /\ [](C8_EndsError)
    /\ []((pc # "idle" /\ UnknownToolAnswer(last_raw)) =>
             (tool_runs = 0 /\ Len(tool_logs) = at_start.logs))

\* C8, amended: the same, but the tool executor runs and the audit records
\* that are excluded are those after the decision; earlier iterations of the
\* same turn may have dispatched tools.
C8_UnknownTool ==
    /\ [][C8_PlannerStep]_vars
    /\ [](C8_EndsError)
    /\ [][C8_NothingDispatchedAfter]_vars

\* C8 witness: a turn that had executed a tool and then got a decision with
\* an unknown tool has ended ERROR
C8_Witness ==
    /\ pc = "END"
    /\ UnknownToolAnswer(last_raw)
    /\ tool_runs = 1
    /\ Len(tool_logs) = at_start.logs + 1
    /\ state.final_payload[1].status = "ERROR"

\* ------------------------------------------------------------------------
\* C9: an answer that is not a decision
\* ------------------------------------------------------------------------

\* raw (an optional LLM answer) does not parse or breaks the invariants of
\* PlannerDecision
InvalidAnswer(raw) == raw # None /\ ~ model_validate_json_ok(raw[1])

\* the planner step that receives such an answer
C9_PlannerStep ==
    (pc = "planner" /\ InvalidAnswer(last_raw')) =>
       /\ state'.stop_reason = "error"
       /\ OneErrorAppended
       /\ Last(state'.errors)[1] = "Planner parse error: "
       /\ state'.tool_queue = << >>
       /\ state'.exit_requested
       /\ state'.messages = state.messages
       /\ state'.step_count = state.step_count
       /\ llm_calls' = llm_calls + 1
       /\ pc' = "gate_evaluator"

\* from that answer to the end of the turn the LLM is not called and the
\* planner does not run
C9_NoRetry ==
    (pc # "idle" /\ InvalidAnswer(last_raw)) =>
       /\ llm_calls' = llm_calls
       /\ pc' # "planner"
       /\ last_raw' = last_raw

\* C9: an LLM answer that fails to parse or breaks the decision invariants
\* makes the planner set stop_reason = error, append one error, empty the
\* queue and request exit, leaving transcript and step counter as they were;
\* the LLM is not called again in the turn, and the turn ends ERROR.
C9_ParseFailure ==
    /\ [][C9_PlannerStep]_vars
    /\ [][C9_NoRetry]_vars
    /\ []((pc = "END" /\ InvalidAnswer(last_raw)) =>
             state.final_payload[1].status = "ERROR")

\* C9 witness: after a tool execution that left a request in the queue, the
\* second answer of the turn was not a decision, and the turn has ended ERROR
C9_Witness ==
    /\ pc = "END"
    /\ InvalidAnswer(last_raw)
    /\ llm_calls = 2
    /\ state.tool_queue = << >>
    /\ state.final_payload[1].status = "ERROR"

\* ------------------------------------------------------------------------
\* C10: a tool that fails
\* ------------------------------------------------------------------------

\* o (an optional handler outcome) is a raised exception or a name the
\* registry does not resolve
FailedOutcome(o) == o \in {Some("raise"), Some("raise_KeyError")}

\* the tool executor step in which the call fails
C10_ToolStep ==
    (pc = "tool_executor" /\ state.tool_queue # << >> /\ FailedOutcome(last_outcome')) =>
       LET name == Head(state.tool_queue).tool_name
       IN  /\ Len(tool_logs') = Len(tool_logs) + 1
           /\ IsPrefix(tool_logs, tool_logs')
           /\ Last(tool_logs').tool_name = name
           /\ Last(tool_logs').success = FALSE
           /\ Last(tool_logs').result.error # None
           /\ state'.last_tool_result # None
           /\ state'.last_tool_result[1].success = FALSE
           /\ state'.last_tool_result[1].result = Last(tool_logs').result
           /\ state'.errors = Append(state.errors, <<"Tool ", name, " failed">>)
           /\ state'.stop_reason = state.stop_reason
           /\ state'.exit_requested = state.exit_requested
           /\ ~ state'.exit_requested
           /\ pc' = "gate_evaluator"

\* the nodes from the gate evaluation after a tool execution to the planner
BackToPlanner == <<"gate_evaluator">> \o ContextNodes \o <<"planner">>

\* after a failed call on a run without blocking items the turn goes through
\* the gate and the context nodes to the planner
C10_PlannerAgain ==
    (pc # "idle" /\ FailedOutcome(last_outcome) /\ NoBlockingItems(db)
       /\ Len(path) < Len(BackToPlanner)) =>
       /\ IsPrefix(path, BackToPlanner)
       /\ pc = BackToPlanner[Len(path) + 1]

\* C10: a handler that raises, or a name that is not resolved, does not
\* abort the turn: the call is recorded with success = false and the error
\* as result, "Tool <name> failed" is appended to the errors, stop reason and
\* exit flag stay as they were, the gate evaluator is next; when the run is
\* not blocked the planner is invoked again.
C10_ToolFailure ==
    /\ [][C10_ToolStep]_vars
    /\ [](C10_PlannerAgain)

\* C10 witness: a turn in which a tool call failed has ended OK
C10_Witness ==
    /\ pc = "END"
    /\ FailedOutcome(last_outcome)
    /\ Len(tool_logs) > at_start.logs
    /\ Last(tool_logs).success = FALSE
    /\ state.final_payload[1].status = "OK"

\* ------------------------------------------------------------------------
\* C11: business data is changed by the tool executor only, all or nothing
\* ------------------------------------------------------------------------

\* exactly one audit record was added by the step
OneLogAppended ==
    /\ Len(tool_logs') = Len(tool_logs) + 1
    /\ IsPrefix(tool_logs, tool_logs')

\* the tool executor step: a call that raised leaves the business state as
\* it was, a call that returned leaves what the handler did
C11_ToolStep ==
    (pc = "tool_executor" /\ state.tool_queue # << >>) =>
       /\ OneLogAppended
       /\ FailedOutcome(last_outcome') => db' = db
       /\ ~ FailedOutcome(last_outcome') => db' \in HandlerEffects(db)

\* the steps of every other node, and the entrypoint
C11_OtherSteps ==
    pc # "tool_executor" => (db' = db /\ tool_logs' = tool_logs)

\* C11: when a handler raises after partial changes the business state after
\* the tool executor step is the state before it plus one audit record; when
\* it returns its changes are committed; no other node changes business data
\* or the audit log.
C11_AllOrNothing ==
    /\ [][C11_ToolStep]_vars
    /\ [][C11_OtherSteps]_vars

\* C11 witness: after a call that returned with a change committed, a second
\* call of the turn has raised and the business state is as the first left it
C11_Witness ==
    /\ pc = "gate_evaluator" /\ path = << >>
    /\ last_outcome = Some("raise")
    /\ tool_runs = 2
    /\ Len(tool_logs) = at_start.logs + 2
    /\ db # at_start.db

\* ------------------------------------------------------------------------
\* C12: a handler that returns an error payload
\* ------------------------------------------------------------------------

\* the tool executor has just run a handler that returned an error payload
C12_ErrorPayloadReturned ==
    /\ pc = "gate_evaluator" /\ path = << >>
    /\ last_outcome = Some("return_error")

\* C12 as stated: a handler that returns an explicit error payload is
\* treated like one that raises: audit record and last tool result carry
\* success = false and "Tool <name> failed" is appended to the errors.
C12_Original ==
    C12_ErrorPayloadReturned =>
       /\ Last(tool_logs).success = FALSE
       /\ state.last_tool_result[1].success = FALSE
       /\ state.errors # << >>
       /\ Last(state.errors) = <<"Tool ", Last(tool_logs).tool_name, " failed">>

\* ------------------------------------------------------------------------
\* C13: one request, one message pair, one audit record per call
\* ------------------------------------------------------------------------

\* the tool messages of a transcript from position n + 1 on
ToolMessagesAfter(messages, n) ==
    { i \in (n + 1)..Len(messages) : messages[i].role = "tool" }

\* the tool executor step with a non-empty queue
C13_ToolStep ==
    (pc = "tool_executor" /\ state.tool_queue # << >>) =>
       LET request == Head(state.tool_queue)
           n == Len(state.messages)
       IN  /\ state'.tool_queue = Tail(state.tool_queue)
           /\ OneLogAppended
           /\ Last(tool_logs').tool_name = request.tool_name
           /\ state'.last_tool_result[1].tool_name = request.tool_name
           /\ Len(state'.messages) = n + 2
           /\ IsPrefix(state.messages, state'.messages)
           /\ state'.messages[n + 1].role = "assistant"
           /\ state'.messages[n + 1].content = << >>
           /\ state'.messages[n + 1].tool_name = Some(request.tool_name)
           /\ state'.messages[n + 1].tool_call_id # None
           /\ request.idempotency_key # None =>
                 state'.messages[n + 1].tool_call_id = Some(<<request.idempotency_key[1]>>)
           /\ state'.messages[n + 2].role = "tool"
           /\ state'.messages[n + 2].tool_call_id = state'.messages[n + 1].tool_call_id

\* in the turn so far, as many audit records as tool messages
C13_LogsMatchMessages ==
    (turn > 0 /\ IsPrefix(at_start.messages, state.messages)) =>
       Len(tool_logs) - at_start.logs =
          Cardinality(ToolMessagesAfter(state.messages, Len(at_start.messages)))

\* C13: a tool executor invocation with a non-empty queue dispatches the
\* request at the front and leaves the others in order; whatever the outcome
\* it appends one assistant tool-call message and one tool message with the
\* same call id, and writes one audit record; so the audit records written in
\* a turn are as many as the tool messages appended in it.
C13_OneCallPerStep ==
    /\ [][C13_ToolStep]_vars
    /\ [](C13_LogsMatchMessages)
    /\ [](turn > 0 => IsPrefix(at_start.messages, state.messages))

\* C13 witness: the first of two enqueued requests has been executed and the
\* second is still in the queue
C13_Witness ==
    /\ pc = "gate_evaluator" /\ path = << >>
    /\ tool_runs = 1
    /\ Len(state.tool_queue) = 1
    /\ state.tool_queue[1].idempotency_key # None
    /\ Len(tool_logs) = at_start.logs + 1

\* ------------------------------------------------------------------------
\* C14: when the human gate runs
\* ------------------------------------------------------------------------

\* the human gate has run in the turn in progress (it runs after the last
\* tool execution of a turn, so path still shows it)
HumanGateRan == "human_gate" \in { path[i] : i \in 1..Len(path) }

\* the planner's latest answer is a done decision with stop reason ask_user
C14_AskedUser ==
    /\ last_raw # None
    /\ model_validate_json_ok(last_raw[1])
    /\ last_raw[1].done
    /\ last_raw[1].stop_reason = "ask_user"

\* C14 as stated: the human gate runs in every turn the planner stops with
\* ask_user, blocking item or not, and in every turn whose gate evaluation
\* reports blocked with a stop reason other than error / max_steps.
C14_Original ==
    pc = "END" =>
       /\ C14_AskedUser => HumanGateRan
       /\ (state.is_blocked /\ state.stop_reason \notin {"error", "max_steps"})
             => HumanGateRan

\* ------------------------------------------------------------------------
\* C15: what the human gate writes
\* ------------------------------------------------------------------------

\* the human gate step
C15_HumanGateStep ==
    pc = "human_gate" =>
       LET snapshot == state.gate_snapshot[1]
           nt == Len(snapshot.required_tasks)
           nc == Len(snapshot.blocking_contradictions)
           nl == Len(snapshot.active_locks)
           actions == state'.needs_review_payload[1].required_actions
       IN  /\ state.gate_snapshot # None
           /\ snapshot = build_gate_snapshot(db)
           /\ state'.needs_review_payload # None
           /\ Len(actions) = nt + nc + nl
           /\ \A i \in 1..nt :
                 actions[i] = [ action |-> "RESOLVE_TASK",
                                id |-> snapshot.required_tasks[i] ]
           /\ \A i \in 1..nc :
                 actions[nt + i] = [ action |-> "RESOLVE_CONTRADICTION",
                                     id |-> snapshot.blocking_contradictions[i] ]
           /\ \A i \in 1..nl :
                 actions[nt + nc + i] = [ action |-> "SUPERSEDE_LOCK",
                                          id |-> snapshot.active_locks[i] ]
           /\ state'.is_blocked
           /\ state'.stop_reason =
                 IF state.stop_reason = "ask_user" THEN "ask_user" ELSE "blocked"

\* a turn on a run whose only blocking item, from start to end, is review
\* task 1, and in which a tool requested by the planner was executed
C15_OneTaskAndATool ==
    /\ pc = "END"
    /\ at_start.db = [ tasks |-> {1}, contradictions |-> {}, locks |-> {} ]
    /\ db = at_start.db
    /\ tool_runs >= 1

\* C15: the human gate writes one required action per blocking item of the
\* gate snapshot (tasks, then contradictions, then locks), sets the blocked
\* flag, and sets the stop reason to ask_user when that was the incoming stop
\* reason and to blocked otherwise; a run with one open blocking review task
\* and a planner that requests a tool ends NEEDS_REVIEW with exactly one
\* RESOLVE_TASK as next actions.
C15_HumanGate ==
    /\ [][C15_HumanGateStep]_vars
    /\ [](C15_OneTaskAndATool =>
            /\ state.final_payload[1].status = "NEEDS_REVIEW"
            /\ state.final_payload[1].next_actions =
                  << [ action |-> "RESOLVE_TASK", id |-> 1 ] >>)

\* C15 witness: such a turn has ended
C15_Witness ==
    /\ C15_OneTaskAndATool
    /\ tool_runs = 1
    /\ HumanGateRan
    /\ state.final_payload[1].status = "NEEDS_REVIEW"

\* ------------------------------------------------------------------------
\* C16: a turn starts from the checkpoint of the previous one
\* ------------------------------------------------------------------------

\* between the end of a turn and the first node of the next one the
\* transcript stays as the finished turn left it
C16_CheckpointKept ==
    pc \in {"END", "idle"} => state'.messages = state.messages

\* the first LLM call of the turn in progress has been made
C16_FirstLLMCall == llm_calls = 1 /\ tool_runs = 0 /\ llm_request # None

\* the LLM request is the system message, the user message and then the
\* transcript the previous turn ended with
C16_RequestCarriesTranscript ==
    C16_FirstLLMCall =>
       /\ Len(llm_request[1]) = 2 + Len(at_start.messages)
       /\ llm_request[1][1].role = "system"
       /\ llm_request[1][2].role = "user"
       /\ llm_request[1][2].content = state.user_message
       /\ \A i \in 1..Len(at_start.messages) :
             llm_request[1][2 + i] = at_start.messages[i]

\* C16: a second turn of the same run and session starts from the first
\* turn's checkpoint: the transcript at its first planner call is the
\* transcript at the end of the first turn, and the LLM receives it after the
\* system and user messages; the first turn of a session starts with an empty
\* transcript.
C16_TurnsShareCheckpoint ==
    /\ [][C16_CheckpointKept]_vars
    /\ [](C16_RequestCarriesTranscript)
    /\ [](turn <= 1 => at_start.messages = << >>)

\* C16 witness: the first LLM call of the second turn carries the assistant
\* message of the first turn
C16_Witness ==
    /\ turn = 2
    /\ C16_FirstLLMCall
    /\ Len(llm_request[1]) = 3
    /\ llm_request[1][3].role = "assistant"
    /\ llm_request[1][3].content = <<"Draft of turn ", "1">>

\* ------------------------------------------------------------------------
\* C17: threads are isolated (thread model)
\* ------------------------------------------------------------------------

\* distinct (run id, session id) pairs have distinct thread ids
C17_DistinctThreadIds ==
    \A p, q \in Pairs : p # q => thread_id_of(p) # thread_id_of(q)

\* a step changes the checkpoint of a pair only when a turn of that pair is
\* in progress
C17_OwnCheckpointOnly ==
    \A q \in Pairs :
       checkpoints'[thread_id_of(q)] # checkpoints[thread_id_of(q)] =>
          \E k \in Slots : slots[k].busy /\ slots[k].pair = q

\* every message of the checkpointed transcript of a pair was produced by a
\* turn of that pair
C17_OwnMessagesOnly ==
    \A p \in Pairs :
       \A i \in 1..Len(checkpoints[thread_id_of(p)]) :
          checkpoints[thread_id_of(p)][i].by = p

\* C17: distinct (run id, session id) pairs map to distinct thread ids; turns
\* of different threads, however interleaved, do not touch each other's
\* checkpoint, and the checkpointed transcript of a thread holds only that
\* thread's own messages.
C17_ThreadIsolation ==
    /\ [](C17_DistinctThreadIds)
    /\ [][C17_OwnCheckpointOnly]_vars
    /\ [](C17_OwnMessagesOnly)
    /\ [](~ overlap => \A p \in Pairs : checkpoints[thread_id_of(p)] = produced[p])

\* C17 witness: turns of two different threads are in progress at once and
\* both have checkpointed messages, the second after the first
C17_Witness ==
    /\ slots[1].busy /\ slots[2].busy
    /\ slots[1].pair = <<1, "1a">>
    /\ slots[2].pair = <<11, "a">>
    /\ Len(checkpoints[thread_id_of(slots[1].pair)]) = 2
    /\ Len(checkpoints[thread_id_of(slots[2].pair)]) = 1
    /\ ~ overlap

\* ------------------------------------------------------------------------
\* C18: the planner's result and the routing after it
\* ------------------------------------------------------------------------

\* the planner step
C18_PlannerStep ==
    pc = "planner" =>
       LET a == state'.stop_reason = "" /\ state'.tool_queue # << >>
           b == state'.stop_reason # ""
       IN  /\ (a \/ b) /\ ~ (a /\ b)
           /\ pc' \in {"tool_executor", "gate_evaluator"}
           /\ (pc' = "tool_executor") <=> (state'.tool_queue # << >>)
           /\ (state'.tool_queue # << >>) <=> ~ state'.exit_requested

\* C18: after every planner step exactly one of (a) stop reason unset and
\* tool queue non-empty, (b) stop reason set, holds; the tool executor runs
\* next if and only if the tool queue is non-empty, which is so if and only
\* if the planner did not request exit.
C18_PlannerOutcome == [][C18_PlannerStep]_vars

\* C18 witness: the planner has enqueued requests with the stop reason unset
\* and the tool executor is next
C18_Witness ==
    /\ pc = "tool_executor"
    /\ path # << >> /\ Last(path) = "planner"
    /\ state.stop_reason = ""
    /\ Len(state.tool_queue) = 2
    /\ ~ state.exit_requested

\* ------------------------------------------------------------------------
\* C19: the values of the stop reason
\* ------------------------------------------------------------------------

\* the stop reasons the nodes write by themselves
FixedStopReasons == {"", "complete", "max_steps", "blocked", "ask_user", "error"}

\* the stop reason the LLM has just returned in an accepted done decision
C19_ReturnedByLLM ==
    IF /\ pc = "planner"
       /\ last_raw' # None
       /\ llm_calls' = llm_calls + 1
       /\ model_validate_json_ok(last_raw'[1])
       /\ last_raw'[1].done
       /\ last_raw'[1].stop_reason # ""
    THEN {last_raw'[1].stop_reason}
    ELSE {}

\* a step leaves the stop reason as it was or sets it to a fixed value or to
\* the text the LLM has just returned
C19_Step ==
    state'.stop_reason \in FixedStopReasons \cup {state.stop_reason} \cup C19_ReturnedByLLM

C20_Added == Len(state'.messages) - Len(state.messages)

C20_Step ==
    /\ IsPrefix(state.messages, state'.messages)
    /\ pc = "planner" =>
          IF /\ llm_calls' = llm_calls + 1
             /\ model_validate_json_ok(last_raw'[1])
             /\ last_raw'[1].done
          THEN /\ C20_Added = 1
               /\ Last(state'.messages).role = "assistant"
               /\ Last(state'.messages).content = last_raw'[1].draft_response
          ELSE C20_Added = 0
    /\ pc = "tool_executor" =>
          IF state.tool_queue # << >>
          THEN /\ C20_Added = 2
               /\ state'.messages[Len(state.messages) + 1].role = "assistant"
               /\ state'.messages[Len(state.messages) + 2].role = "tool"
          ELSE C20_Added = 0
    /\ pc \notin {"planner", "tool_executor"} => C20_Added = 0

\* C20: the transcript before every step is a prefix of the transcript after
\* it; only the planner (one assistant message on a done decision) and the
\* tool executor (one assistant/tool pair per call) add messages.
C20_AppendOnly == [][C20_Step]_vars

\* C20 witness: a done decision has been appended after a tool call pair of
\* the same turn
C20_Witness ==
    /\ pc = "gate_evaluator"
    /\ path # << >> /\ Last(path) = "planner"
    /\ tool_runs = 1
    /\ Len(state.messages) = Len(at_start.messages) + 3
    /\ Last(state.messages).role = "assistant"
    /\ state.messages[Len(state.messages) - 1].role = "tool"

\* ------------------------------------------------------------------------
\* C21: compiling a compiled packet (compiler model)
\* ------------------------------------------------------------------------

\* the list of a lane, empty when the lane is not set
LaneList(lane, field) == IF lane = None THEN << >> ELSE lane[1][field]

\* the serialized sizes of the four lanes of a packet
LaneSizes(packet) ==
    << LaneChars(WorldSnapshotBaseChars,
                 LaneList(packet.world_snapshot, "last_tool_outcomes")),
       LaneChars(AnchorBaseChars, LaneList(packet.people_time_anchor, "people")),
       LaneChars(MemoryBaseChars, LaneList(packet.memory_summaries, "entries")),
       LaneChars(EvidenceBaseChars, LaneList(packet.evidence_pack, "items")) >>

\* the latest compilation was given a packet that was already compiled
C21_CompiledAgain == cc_runs >= 2

\* C21 as stated: compiling a compiled packet changes nothing in the packet.
C21_Original == C21_CompiledAgain => cc_packet = cc_before

\* C21: compiling a packet that is already compiled leaves the four lanes and
\* the token budget as they are, and every lane's serialized size identical;
\* the compile time of the packet is the one field that is written again.
C21_LanesIdempotent ==
    C21_CompiledAgain =>
       /\ cc_packet.world_snapshot = cc_before.world_snapshot
       /\ cc_packet.people_time_anchor = cc_before.people_time_anchor
       /\ cc_packet.memory_summaries = cc_before.memory_summaries
       /\ cc_packet.evidence_pack = cc_before.evidence_pack
       /\ cc_packet.token_budget = cc_before.token_budget
       /\ LaneSizes(cc_packet) = LaneSizes(cc_before)
       /\ cc_packet.compiled_at # None
       /\ cc_before.compiled_at # None

\* C21 witness: a packet whose first compilation removed elements has been
\* compiled a second time
C21_Witness ==
    /\ cc_runs = 2
    /\ cc_packet.world_snapshot # None
    /\ Len(cc_packet.world_snapshot[1].last_tool_outcomes) = 1
    /\ cc_packet.token_budget.world_snapshot = 140
    /\ cc_packet.evidence_pack # None
    /\ cc_packet.evidence_pack[1].items = << >>
    /\ cc_packet.token_budget.evidence_pack = 15
    /\ cc_packet.compiled_at # cc_before.compiled_at

\* ------------------------------------------------------------------------
\* C22: what the compiler leaves of each lane (compiler model)
\* ------------------------------------------------------------------------

\* the lane fits its budget
Fits(base, list, lane_budget) == LaneChars(base, list) \div 4 <= lane_budget

\* list_out is what C22 says the compiler leaves of list_in
LongestFittingPrefix(base, list_in, list_out, lane_budget) ==
    /\ IsPrefix(list_out, list_in)
    /\ Fits(base, list_out, lane_budget) \/ list_out = << >>
    /\ \A n \in (Len(list_out) + 1)..Len(list_in) :
          ~ Fits(base, SubSeq(list_in, 1, n), lane_budget)
    /\ Fits(base, list_in, lane_budget) => list_out = list_in

\* a lane before and after: set or not set as before, the list trimmed, the
\* other fields as they were
LaneTrimmed(base, lane_in, lane_out, field, lane_budget) ==
    IF lane_in = None THEN lane_out = None
    ELSE /\ lane_out # None
         /\ LongestFittingPrefix(base, lane_in[1][field], lane_out[1][field],
                                 lane_budget)
         /\ lane_out[1] = [ lane_in[1] EXCEPT ![field] = lane_out[1][field] ]

\* C22: for each of the four lanes independently, the list the compiler
\* leaves is a prefix of the input list, the longest one whose estimated size
\* (serialized length divided by 4, rounded down) does not exceed the lane's
\* budget, or the empty list when no prefix fits; a lane within budget keeps
\* every element, and no element is rewritten.
C22_LongestPrefix ==
    cc_runs >= 1 =>
       LET budget == cc_before.token_budget
       IN  /\ LaneTrimmed(WorldSnapshotBaseChars, cc_before.world_snapshot,
                          cc_packet.world_snapshot, "last_tool_outcomes",
                          budget.world_snapshot)
           /\ LaneTrimmed(AnchorBaseChars, cc_before.people_time_anchor,
                          cc_packet.people_time_anchor, "people",
                          budget.people_time_anchor)
           /\ LaneTrimmed(MemoryBaseChars, cc_before.memory_summaries,
                          cc_packet.memory_summaries, "entries",
                          budget.memory_summaries)
           /\ LaneTrimmed(EvidenceBaseChars, cc_before.evidence_pack,
                          cc_packet.evidence_pack, "items",
                          budget.evidence_pack)
           /\ cc_packet.token_budget = budget

\* C22 witness: one compilation has cut the first lane to one element that
\* fills the budget exactly, emptied the second, and kept the fourth whole
C22_Witness ==
    /\ cc_runs = 1
    /\ cc_before.world_snapshot # None
    /\ Len(cc_before.world_snapshot[1].last_tool_outcomes) = 2
    /\ Len(cc_packet.world_snapshot[1].last_tool_outcomes) = 1
    /\ LaneChars(WorldSnapshotBaseChars,
                 cc_packet.world_snapshot[1].last_tool_outcomes) \div 4
          = cc_before.token_budget.world_snapshot
    /\ cc_before.people_time_anchor # None
    /\ Len(cc_before.people_time_anchor[1].people) = 2
    /\ cc_packet.people_time_anchor[1].people = << >>
    /\ cc_before.evidence_pack # None
    /\ Len(cc_before.evidence_pack[1].items) = 2
    /\ cc_packet.evidence_pack = cc_before.evidence_pack

\* ------------------------------------------------------------------------
\* C23: a lane builder writes its own lane only
\* ------------------------------------------------------------------------

LaneOf ==
    [ load_world_snapshot |-> "world_snapshot",
      build_anchor_lane |-> "people_time_anchor",
      memory_retrieve |-> "memory_summaries",
      retrieve_evidence_pack |-> "evidence_pack" ]

\* a lane builder's step
C23_LaneBuilderStep ==
    pc \in DOMAIN LaneOf =>
       LET packet_in == state.context_packet
           packet_out == state'.context_packet
       IN  /\ \A f \in (DOMAIN packet_in) \ {LaneOf[pc]} :
                 packet_out[f] = packet_in[f]
           /\ DOMAIN packet_out = DOMAIN packet_in
           /\ packet_out[LaneOf[pc]] # None
           /\ \A f \in (DOMAIN state) \ {"context_packet"} : state'[f] = state[f]
           /\ DOMAIN state' = DOMAIN state
           /\ db' = db
           /\ tool_logs' = tool_logs

\* C23: each of the four lane builders replaces only its own lane of the
\* context packet; the other three lanes and the token budget of the
\* returned packet are those of the inbound state, and no other state field
\* and no business data changes.
C23_OwnLaneOnly == [][C23_LaneBuilderStep]_vars

\* C23 witness: inside the tool loop the first lane has been rebuilt, with
\* the latest tool outcome in it, while the other lanes were set
C23_Witness ==
    /\ pc = "build_anchor_lane"
    /\ tool_runs = 1
    /\ Len(state.context_packet.world_snapshot[1].last_tool_outcomes)
          = Len(tool_logs)
    /\ Len(tool_logs) >= 1
    /\ state.context_packet.people_time_anchor # None
    /\ state.context_packet.memory_summaries # None
    /\ state.context_packet.evidence_pack # None
    /\ state.context_packet.compiled_at # None

\* ------------------------------------------------------------------------
\* C25: the gate evaluator reads durable state only
\* ------------------------------------------------------------------------

\* the ids of a set in increasing order
C25_Ordered(seq, set) ==
    /\ Len(seq) = Cardinality(set)
    /\ { seq[i] : i \in 1..Len(seq) } = set
    /\ \A i, j \in 1..Len(seq) : i < j => seq[i] < seq[j]

\* the gate evaluator's step: its results are determined by the database
C25_GateStep ==
    pc = "gate_evaluator" =>
       LET snapshot == state'.gate_snapshot[1]
       IN  /\ state'.gate_snapshot # None
           /\ C25_Ordered(snapshot.required_tasks, db.tasks)
           /\ C25_Ordered(snapshot.blocking_contradictions, db.contradictions)
           /\ C25_Ordered(snapshot.active_locks, db.locks)
           /\ snapshot.counts =
                 [ blocking_contradictions |-> Cardinality(db.contradictions),
                   required_tasks |-> Cardinality(db.tasks),
                   active_locks |-> Cardinality(db.locks) ]
           /\ state'.is_blocked <=>
                 \/ snapshot.counts.blocking_contradictions > 0
                 \/ snapshot.counts.required_tasks > 0
                 \/ snapshot.counts.active_locks > 0
           /\ db' = db

\* C25: the gate evaluator is a function of the durable business state only:
\* its snapshot and its blocked flag (blocked iff one of the three counts is
\* above 0) are the same for the same durable state, whatever the gate
\* snapshot, blocked flag, stop reason or other in-memory state before it.
C25_GatePure == [][C25_GateStep]_vars

\* C25 witness: an evaluation has found the run clean although the state
\* still carried the blocked results of an earlier turn
C25_Witness ==
    /\ turn = 2
    /\ path # << >> /\ Last(path) = "gate_evaluator"
    /\ Len(gate_seen) = 1
    /\ ~ state.is_blocked
    /\ state.needs_review_payload # None
    /\ state.stop_reason = "blocked"

\* ------------------------------------------------------------------------
\* C26: the planner acts on consistent decisions only
\* ------------------------------------------------------------------------

\* the combination C26 allows
C26_Consistent(raw) ==
    /\ raw.json
    /\ raw.done => /\ raw.stop_reason # ""
                   /\ raw.draft_response # << >>
                   /\ Len(raw.tool_requests) = 0
    /\ ~ raw.done => Len(raw.tool_requests) >= 1

\* the planner has acted on the answer: a message, a queue or a step count
\* was written, or the answer was examined for unknown tools
C26_ActedOn ==
    \/ state'.messages # state.messages
    \/ state'.tool_queue # << >>
    \/ state'.step_count # state.step_count
    \/ state'.stop_reason \notin {"error", state.stop_reason}
    \/ /\ Len(state'.errors) = Len(state.errors) + 1
       /\ Last(state'.errors)[1] = "Unknown tool: "

\* the planner's step after an LLM call
C26_PlannerStep ==
    (pc = "planner" /\ llm_calls' = llm_calls + 1) =>
       LET raw == last_raw'[1]
       IN  /\ C26_ActedOn => C26_Consistent(raw)
           /\ ~ C26_Consistent(raw) =>
                 /\ state'.stop_reason = "error"
                 /\ state'.exit_requested
                 /\ state'.tool_queue = << >>
                 /\ Len(state'.errors) = Len(state.errors) + 1
                 /\ Last(state'.errors)[1] = "Planner parse error: "
           /\ C26_Consistent(raw) => C26_ActedOn

\* C26: a planner decision exists only if done=true comes with a non-empty
\* stop reason, a non-empty draft response and no tool request, and
\* done=false with at least one tool request; every other combination is
\* rejected at construction, so the planner never acts on one.
C26_ConsistentDecisions == [][C26_PlannerStep]_vars

\* C26 witness: a done decision that carried a tool request has been rejected
C26_Witness ==
    /\ path # << >> /\ Last(path) = "planner"
    /\ last_raw # None
    /\ last_raw[1].json /\ last_raw[1].done
    /\ last_raw[1].tool_requests # << >>
    /\ state.stop_reason = "error"
    /\ state.messages = at_start.messages

\* ------------------------------------------------------------------------
\* C24: what clear_checkpoints deletes (checkpoint store model)
\* ------------------------------------------------------------------------

\* the call names the threads to clear in one of the three ways of C24
C24_Covered(a) == a.run_id # None \/ a.session_id = None

\* the thread of pair p is one the call is to clear
C24_Targeted(p, a) ==
    IF a.run_id # None /\ a.session_id # None
    THEN p = << a.run_id[1], a.session_id[1] >>
    ELSE IF a.run_id # None
    THEN p[1] = a.run_id[1]
    ELSE TRUE

RECURSIVE C24_RowsOf(_)
\* the rows stored for a set of pairs
C24_RowsOf(ps) ==
    IF ps = {} THEN 0
    ELSE LET p == CHOOSE q \in ps : TRUE
         IN  rows[thread_id_of(p)] + C24_RowsOf(ps \ {p})

\* a call of clear_checkpoints
C24_ClearStep ==
    clears' = clears + 1 =>
       LET a == cleared'[1]
       IN  C24_Covered(a) =>
              /\ \A p \in Pairs :
                    IF C24_Targeted(p, a)
                    THEN /\ checkpoints'[thread_id_of(p)] = << >>
                         /\ rows'[thread_id_of(p)] = 0
                    ELSE /\ checkpoints'[thread_id_of(p)] = checkpoints[thread_id_of(p)]
                         /\ rows'[thread_id_of(p)] = rows[thread_id_of(p)]
              /\ a.deleted = C24_RowsOf({ p \in Pairs : C24_Targeted(p, a) })

\* a turn that starts on a thread without rows starts from an empty state
C24_InvokeStep ==
    \A k \in Slots :
       (~ slots[k].busy /\ slots'[k].busy /\ rows[thread_id_of(slots'[k].pair)] = 0)
          => slots'[k].transcript = << >>

\* C24: clear_checkpoints with a run id and a session id deletes the data of
\* exactly the thread "<run>:<session>"; with a run id only, the data of
\* every thread of that run and of no thread of another run; with neither,
\* the data of all threads. It returns the number of rows deleted, and the
\* next turn of a cleared thread starts from an empty state.
C24_ClearCheckpoints ==
    /\ [][C24_ClearStep]_vars
    /\ [][C24_InvokeStep]_vars
    /\ [](\A t \in ThreadIds : rows[t] = 0 => checkpoints[t] = << >>)

\* C24 witness: run 1 was cleared by its run id, two rows were deleted, the
\* thread of run 11 kept its checkpoint, and a thread of run 1 that had
\* produced a message has started its next turn from an empty state
C24_Witness ==
    /\ cleared # None
    /\ cleared[1].run_id = Some(1) /\ cleared[1].session_id = None
    /\ cleared[1].deleted = 2
    /\ checkpoints[make_thread_id(11, "a")] # << >>
    /\ slots[1].busy /\ slots[1].pair = <<1, "a">>
    /\ slots[1].transcript = << >>
    /\ produced[<<1, "a">>] # << >>
    /\ produced[<<1, "1a">>] # << >>

\* ------------------------------------------------------------------------
\* C27: a blank instruction (graph model with blank instructions)
\* ------------------------------------------------------------------------

\* the instruction is empty or consists of white space
C27_BlankInstruction ==
    \A i \in 1..Len(state.user_message) : state.user_message[i] \in {"", " "}

\* retrieve_evidence_pack on a blank instruction
C27_EvidenceStep ==
    (pc = "retrieve_evidence_pack" /\ C27_BlankInstruction) =>
       /\ fts_calls' = fts_calls
       /\ state'.context_packet.evidence_pack # None
       /\ state'.context_packet.evidence_pack[1].items = << >>
       /\ state'.context_packet.evidence_pack[1].retrieval_method = Some("fts")
       /\ pc' = "context_compiler"

\* the turn goes on to the compiler and the planner as any other
C27_GoesOn ==
    /\ pc = "context_compiler" => pc' = "planner"
    /\ (pc = "planner" /\ ~ planner_max_steps_guard(state)) =>
          llm_calls' = llm_calls + 1

\* C27: on an empty or whitespace-only instruction retrieve_evidence_pack
\* makes no call to the retrieval backend and sets an evidence pack with an
\* empty item list and the retrieval method set; the turn continues to the
\* compiler and the planner.
C27_BlankShortCircuit ==
    /\ [][C27_EvidenceStep]_vars
    /\ [][C27_GoesOn]_vars
    /\ [](C27_BlankInstruction => fts_calls = 0)

\* C27 witness: in a turn whose instruction is a space the planner has called
\* the LLM, with an empty evidence pack and no search made
C27_Witness ==
    /\ state.user_message = <<" ">>
    /\ llm_calls = 1
    /\ path # << >> /\ Last(path) = "planner"
    /\ fts_calls = 0
    /\ state.context_packet.evidence_pack[1].items = << >>
    /\ state.context_packet.evidence_pack[1].retrieval_method = Some("fts")

\* ------------------------------------------------------------------------
\* C28: the step counter at the start of a turn
\* ------------------------------------------------------------------------

\* the planner is about to run for the first time in this turn
C28_FirstPlannerInvocation ==
    /\ pc = "planner"
    /\ tool_runs = 0
    /\ llm_calls = 0

\* C28 as stated: at the first planner invocation of every turn, a turn
\* resumed from a checkpoint included, the step counter is 0, and a thread
\* whose previous turn ended with max_steps calls the LLM in its next turn.
C28_Original ==
    /\ C28_FirstPlannerInvocation => state.step_count = 0
    /\ (pc = "END" /\ turn >= 2 /\ state.max_steps > 0) => llm_calls >= 1

\* ------------------------------------------------------------------------
\* C29: the next actions of a NEEDS_REVIEW outcome
\* ------------------------------------------------------------------------

\* C29 as stated: in every NEEDS_REVIEW outcome the next actions are the
\* required actions for the blocking items of the gate snapshot of the same
\* turn, one per item, and none is left over from an earlier turn.
C29_Original ==
    (pc = "END" /\ state.final_payload[1].status = "NEEDS_REVIEW") =>
       LET snapshot == Last(gate_seen)
           actions == state.final_payload[1].next_actions
       IN  /\ Len(actions) = Len(snapshot.required_tasks)
                             + Len(snapshot.blocking_contradictions)
                             + Len(snapshot.active_locks)
           /\ actions = required_actions_of(snapshot)

\* ------------------------------------------------------------------------
\* C30: requests left in the queue
\* ------------------------------------------------------------------------

\* C30 as stated: every request the planner enqueued is dispatched before the
\* planner replaces or clears the queue: when the planner runs again in a
\* turn, the requests it enqueued earlier in that turn have all been executed.
C30_Original ==
    (pc = "planner" /\ tool_runs >= 1) => state.tool_queue = << >>

\* ------------------------------------------------------------------------
\* C31: evidence is scoped to the run
\* ------------------------------------------------------------------------

\* the run a segment belongs to
C31_RunOf(segment_id) ==
    (CHOOSE x \in Segments : x.segment_id = segment_id).run_id

C31_PackItems ==
    IF state.context_packet.evidence_pack = None THEN << >>
    ELSE state.context_packet.evidence_pack[1].items

\* C31 as stated: every item placed in the evidence pack of a turn on run R,
\* and every citation returned for the turn, comes from a segment that belongs
\* to run R.
C31_Original ==
    /\ \A i \in 1..Len(C31_PackItems) :
           C31_RunOf(C31_PackItems[i].segment_id) = state.run_id
    /\ \A i \in 1..Len(response.citations) :
           C31_RunOf(response.citations[i].segment_id) = state.run_id

\* ------------------------------------------------------------------------
\* C32: bounds and increments of the step counter
\* ------------------------------------------------------------------------

\* the step being taken is a planner invocation whose decision is valid and
\* not done
C32_ValidNotDone ==
    /\ pc = "planner"
    /\ ~ planner_max_steps_guard(state)
    /\ last_raw' # None
    /\ model_validate_json_ok(last_raw'[1])
    /\ ~ last_raw'[1].done
    /\ FirstUnknownTool(last_raw'[1].tool_requests) = None

\* the tool handlers dispatched on the thread so far: each left one tool
\* message in the transcript
C32_Dispatched ==
    Cardinality({ i \in 1..Len(state.messages) : state.messages[i].role = "tool" })

C32_CounterStep ==
    state'.step_count = IF C32_ValidNotDone THEN state.step_count + 1
                        ELSE state.step_count

\* C32: in every state reachable from a fresh state with max_steps >= 0,
\* 0 <= step counter <= max_steps; the step counter is incremented by exactly
\* one on each valid not-done planner decision and by no other step; and the
\* number of tool handlers dispatched never exceeds the step counter.
C32_StepCounterBounds ==
    /\ [](0 <= state.step_count /\ state.step_count <= state.max_steps)
    /\ [][C32_CounterStep]_vars
    /\ [](C32_Dispatched <= state.step_count)
    /\ [](tool_runs + at_start.step_count <= state.step_count)

\* C32 witness: in the second turn of a thread with ceiling 2 the counter has
\* reached the ceiling and two handlers have been dispatched, one per turn
C32_Witness ==
    /\ turn = 2
    /\ state.max_steps = 2 /\ state.step_count = 2
    /\ C32_Dispatched = 2
    /\ tool_runs = 1 /\ at_start.step_count = 1

\* ------------------------------------------------------------------------
\* C33: turns of one thread are not serialized (thread model)
\* ------------------------------------------------------------------------

\* while a turn of pair p is in progress in one slot, a request of the same
\* pair may begin in a free slot
C33_NotSerialized ==
    \A k, j \in Slots, p \in Pairs :
       ( /\ j # k
         /\ slots[j].busy /\ slots[j].pair = p
         /\ ~ slots[k].busy
         /\ Len(produced[p]) < MaxThreadMessages )
       => ENABLED thread_invoke_at(k, p)

\* a turn that begins starts from the checkpoint of its thread, whether or
\* not another turn of the thread is in progress
C33_StartsFromCheckpoint ==
    \A k \in Slots :
       (~ slots[k].busy /\ slots'[k].busy) =>
          slots'[k].transcript = checkpoints[thread_id_of(slots'[k].pair)]

\* a turn that appends to its transcript leaves its own state as the
\* checkpoint of the thread, whatever the checkpoint held
C33_LastWriterWins ==
    \A k \in Slots :
       (slots[k].busy /\ slots'[k].busy
           /\ slots'[k].transcript # slots[k].transcript) =>
          checkpoints'[thread_id_of(slots[k].pair)] = slots'[k].transcript

\* C33: the core does not serialize turns of the same thread: a second turn
\* of a thread may begin while the first is in progress, each starts from the
\* checkpoint of the thread, and each write leaves the writer's state as the
\* checkpoint, so the checkpoint that remains can hold only the last writer's
\* state and lose the entries appended by the other turn.
C33_SameThreadInterleaving ==
    /\ [](C33_NotSerialized)
    /\ [][C33_StartsFromCheckpoint]_vars
    /\ [][C33_LastWriterWins]_vars

\* C33 witness: two turns of thread 1:a began from the same empty checkpoint,
\* both appended an entry and returned; the checkpoint holds only the entry
\* of the last writer and the first writer's entry is lost
C33_Witness ==
    /\ overlap
    /\ \A k \in Slots : ~ slots[k].busy
    /\ produced[<<1, "a">>] =
          << [by |-> <<1, "a">>, n |-> 1], [by |-> <<1, "a">>, n |-> 2] >>
    /\ checkpoints[thread_id_of(<<1, "a">>)] = << [by |-> <<1, "a">>, n |-> 2] >>

\* ------------------------------------------------------------------------
\* C34: a blocked run dispatches at most one tool in a turn
\* ------------------------------------------------------------------------

\* the run has had a blocking item for the whole of the turn so far: when the
\* turn started, at every gate evaluation and now (the database changes in
\* the tool executor only, and the gate is evaluated right after it)
C34_BlockedThroughout ==
    /\ turn > 0 /\ pc # "idle"
    /\ ~ NoBlockingItems(at_start.db)
    /\ ~ NoBlockingItems(db)
    /\ \A i \in 1..Len(gate_seen) : ~ ZeroCounts(gate_seen[i])

\* C34: on a run that has a blocking item for the whole turn, at most one tool
\* handler is dispatched in the turn.  The gate is first evaluated only after
\* the planner's first decision and its tool execution, so that tool still
\* runs and its call is logged; after it the turn goes to the human gate and
\* ends NEEDS_REVIEW without a further planner call.
C34_BlockedRunOneTool ==
    C34_BlockedThroughout =>
       /\ tool_runs <= 1
       /\ llm_calls <= 1
       /\ pc = "tool_executor" => gate_seen = << >>
       /\ tool_runs = 1 =>
             /\ last_outcome # None
             /\ Len(tool_logs) = at_start.logs + 1
             /\ llm_calls = 1
             /\ pc \in {"gate_evaluator", "human_gate", "summarizer",
                         "finalizer", "END"}
             /\ \A i \in 1..Len(path) : path[i] # "planner"
             /\ Len(gate_seen) <= 1
             /\ pc \in {"summarizer", "finalizer", "END"} => HumanGateRan
             /\ pc = "END" =>
                   /\ state.final_payload[1].status = "NEEDS_REVIEW"
                   /\ state.stop_reason \in {"blocked", "ask_user"}

\* C34 witness: the second turn of a thread on a run with an open lock has
\* ended NEEDS_REVIEW after one handler, which returned, and one LLM call
C34_Witness ==
    /\ C34_BlockedThroughout
    /\ turn = 2 /\ pc = "END"
    /\ db.locks # {}
    /\ tool_runs = 1 /\ llm_calls = 1
    /\ last_outcome = Some("return")
    /\ HumanGateRan
    /\ state.final_payload[1].status = "NEEDS_REVIEW"

====
